---- MODULE Spec2Model ----
(***************************************************************************)
(* Unnode.js process supervision: the cluster master (UnnodeMaster) and    *)
(* the worker processes it forks (UnnodeWorker), with the IPC messages     *)
(* that flow between them.                                                 *)
(***************************************************************************)
EXTENDS Integers, Sequences, FiniteSets, TLC

(***************************************************************************)
(* Bounds of the model.                                                    *)
(***************************************************************************)
\* os.cpus().length in the lifecycle specification
CpuCount == 2
\* largest os.cpus().length tried by the init specification
MaxCpu == 3
\* longest UNNODE_WORKERS string tried by the init specification
MaxEnvLen == 3
\* cluster worker ids are 1, 2, ...: forks stop at this id
MaxWorkerId == 4
\* calls of _restartWorkers
MaxRestarts == 1
\* faults of the environment: worker crashes and listeners that fail to bind
MaxFaults == 1
\* SIGINT / SIGTERM signals sent to the master
MaxSignals == 2

(***************************************************************************)
(* Program constants, in units of 1000 ms.                                 *)
(***************************************************************************)
\* setTimeout(..., 6000) of _restartWorkers
ForceKillTimeout == 6
\* gracefulTerminationTimeout: 5000 of both http terminators
GracefulTerminationTimeout == 5

(***************************************************************************)
(* process.env.UNNODE_WORKERS: undefined, or a string, kept as the         *)
(* sequence of its characters.                                             *)
(***************************************************************************)
Undefined == <<"undefined">>

DecDigits == {"0", "1", "2", "3", "5"}

Chars == DecDigits \cup {".", "-", "b", "a"}

DigitVal(c) ==
    CASE c = "0" -> 0 [] c = "1" -> 1 [] c = "2" -> 2 [] c = "3" -> 3
      [] c = "5" -> 5 [] OTHER -> 0

RECURSIVE StringsUpTo(_)
StringsUpTo(n) ==
    IF n = 0 THEN {<<>>}
    ELSE LET shorter == StringsUpTo(n - 1)
         IN  shorter \cup {Append(s, c) : s \in {t \in shorter : Len(t) = n - 1}, c \in Chars}

\* a JavaScript number: NaN, or the rational num / den (den a power of ten)
NaN == [nan |-> TRUE, num |-> 0, den |-> 1]

Num(n, d) == [nan |-> FALSE, num |-> n, den |-> d]

RECURSIVE Pow10(_)
Pow10(n) == IF n = 0 THEN 1 ELSE 10 * Pow10(n - 1)

\* the value of a run of decimal digits
RECURSIVE DigitsValue(_)
DigitsValue(s) ==
    IF Len(s) = 0 THEN 0
    ELSE 10 * DigitsValue(SubSeq(s, 1, Len(s) - 1)) + DigitVal(s[Len(s)])

\* the value of a run of binary digits
RECURSIVE BinaryValue(_)
BinaryValue(s) ==
    IF Len(s) = 0 THEN 0
    ELSE 2 * BinaryValue(SubSeq(s, 1, Len(s) - 1)) + DigitVal(s[Len(s)])

AllIn(s, set) == \A i \in 1..Len(s) : s[i] \in set

Dots(s) == {i \in 1..Len(s) : s[i] = "."}

\* StrUnsignedDecimalLiteral: digits, at most one ".", at least one digit
UnsignedDecimal(s) ==
    IF ~AllIn(s, DecDigits \cup {"."}) \/ Cardinality(Dots(s)) > 1
       \/ Len(s) = Cardinality(Dots(s))
    THEN NaN
    ELSE IF Dots(s) = {} THEN Num(DigitsValue(s), 1)
    ELSE LET p     == CHOOSE i \in Dots(s) : TRUE
             whole == SubSeq(s, 1, p - 1)
             frac  == SubSeq(s, p + 1, Len(s))
         IN  Num(DigitsValue(whole) * Pow10(Len(frac)) + DigitsValue(frac),
                 Pow10(Len(frac)))

\* ToNumber applied to a string (StringToNumber): "" is 0, "0b..." is a
\* binary integer literal, anything else a signed decimal literal or NaN
StringToNumber(s) ==
    IF Len(s) = 0 THEN Num(0, 1)
    ELSE IF Len(s) >= 2 /\ s[1] = "0" /\ s[2] = "b"
    THEN LET bits == SubSeq(s, 3, Len(s))
         IN  IF Len(bits) > 0 /\ AllIn(bits, {"0", "1"})
             THEN Num(BinaryValue(bits), 1) ELSE NaN
    ELSE IF s[1] = "-"
    THEN LET u == UnsignedDecimal(SubSeq(s, 2, Len(s)))
         IN  IF u.nan THEN NaN ELSE Num(0 - u.num, u.den)
    ELSE UnsignedDecimal(s)

ToNumber(v) == IF v = Undefined THEN NaN ELSE StringToNumber(v)

\* the global isNaN(v)
IsNaN(v) == ToNumber(v).nan

\* v < k and v > k for an integer k; every comparison with NaN is false
LessThan(v, k) == LET n == ToNumber(v) IN ~n.nan /\ n.num < k * n.den

GreaterThan(v, k) == LET n == ToNumber(v) IN ~n.nan /\ n.num > k * n.den

\* the longest prefix of s made of decimal digits
RECURSIVE DigitPrefix(_)
DigitPrefix(s) ==
    IF Len(s) = 0 \/ s[1] \notin DecDigits THEN <<>>
    ELSE <<s[1]>> \o DigitPrefix(Tail(s))

\* parseInt(s) without a radix: an optional sign, then the leading decimal
\* digits; NaN ("NaN") when there is none
ParseInt(s) ==
    LET neg  == Len(s) > 0 /\ s[1] = "-"
        body == IF neg THEN Tail(s) ELSE s
        ds   == DigitPrefix(body)
    IN  IF Len(ds) = 0 THEN "NaN"
        ELSE IF neg THEN 0 - DigitsValue(ds) ELSE DigitsValue(ds)

\* the number of iterations of for (let i = i0; i < v; i++)
RECURSIVE LoopCount(_, _)
LoopCount(v, i) == IF GreaterThan(v, i) THEN 1 + LoopCount(v, i + 1) ELSE 0

(***************************************************************************)
(* State.                                                                  *)
(***************************************************************************)
VARIABLES
    env,                    \* process.env and os.cpus(), fixed at start
    masterPc,               \* "new" (constructed), "running" (init() has run)
    firstInitDone,          \* UnnodeMaster._firstInitDone
    numWorkers,             \* UnnodeMaster._numWorkers
    numWorkersReady,        \* UnnodeMaster._numWorkersReady
    shutdownSignalReceived, \* the closure variable of init()
    workers,                \* cluster.workers: worker id -> worker process
    nextId,                 \* the id cluster.fork() gives the next worker
    timers,                 \* pending force-kill timers: worker id -> how many
    clock,                  \* time left on the timers (timed specification)
    hist,                   \* what has happened so far (observations only)
    hostDictionary,         \* ExpressVhostRouter._hostDictionary of one worker
    call                    \* the last call of a function of one worker, with
                            \* its arguments and what it did

vars == <<env, masterPc, firstInitDone, numWorkers, numWorkersReady,
          shutdownSignalReceived, workers, nextId, timers, clock, hist,
          hostDictionary, call>>

\* the variables of the functions of one worker
local == <<hostDictionary, call>>

NoCall == [fn |-> "none"]

masterVars == <<masterPc, firstInitDone, numWorkers, numWorkersReady,
                shutdownSignalReceived>>

Pool == DOMAIN workers

\* the environment of one deployment
Env(w, c, pi, ps, tls, cb) ==
    [workers |-> w, cpus |-> c, portInsecure |-> pi, portSecure |-> ps,
     tlsReadable |-> tls, shutdownCallback |-> cb]

\* the deployments of the lifecycle specification:
\* one worker with an HTTP and an HTTPS listener and a pre-shutdown callback,
\* one worker with no valid port, and cpuCount workers with an HTTP listener
\* and no callback
Deployments ==
    { Env(<<"1">>, CpuCount, TRUE, TRUE, TRUE, TRUE),
      Env(<<"1">>, CpuCount, FALSE, FALSE, TRUE, TRUE),
      Env(Undefined, CpuCount, TRUE, FALSE, TRUE, FALSE) }

InitHist ==
    [restarts |-> 0,                \* calls of _restartWorkers
     faults |-> 0,                  \* worker crashes and failed binds
     broadcasts |-> 0,              \* calls of _shutdownWorkers
     allOnline |-> 0,               \* "All workers online" since the last restart
     acceptingAtRestart |-> FALSE,  \* a worker was accepting at the last restart
     signals |-> 0,                 \* SIGINT / SIGTERM signals handled
     lastReload |-> "none"]         \* what the last SIGUSR2 did

\* the fields of a freshly constructed UnnodeMaster
InitMaster ==
    /\ masterPc = "new"
    /\ firstInitDone = FALSE
    /\ numWorkers = 0
    /\ numWorkersReady = 0
    /\ shutdownSignalReceived = FALSE
    /\ workers = <<>>
    /\ nextId = 1
    /\ timers = <<>>
    /\ clock = [kill |-> <<>>, drain |-> <<>>]
    /\ hist = InitHist
    /\ hostDictionary = <<>>
    /\ call = NoCall

Init ==
    /\ env \in Deployments
    /\ InitMaster

\* the init specification: every UNNODE_WORKERS string, every CPU count
InitAnyWorkers ==
    /\ env \in {Env(w, c, TRUE, FALSE, TRUE, FALSE) :
                    w \in StringsUpTo(MaxEnvLen) \cup {Undefined}, c \in 1..MaxCpu}
    /\ InitMaster

(***************************************************************************)
(* A worker process: the fields of UnnodeWorker, its place in runServer()  *)
(* and in shutdownServer(), and its end of the IPC channel.                *)
(***************************************************************************)
NewWorker(gen) ==
    [gen |-> gen,                   \* restarts before its fork
     pc |-> "setup",                \* setup, httpBind, httpsBind, served, stuck
     pingInterval |-> FALSE,
     serverInsecure |-> "null",     \* null, binding, listening, draining, closed, error
     serverSecure |-> "null",
     httpTerminator |-> FALSE,      \* _httpTerminator !== null
     httpsTerminator |-> FALSE,
     serverQuitting |-> FALSE,
     sd |-> "idle",                 \* idle, callback, drainHttp, drainHttps, done
     inbox |-> 0,                   \* 'shutdown' commands sent to it, not yet handled
     outbox |-> <<>>,               \* messages to the master not yet handled
     connected |-> TRUE,            \* the IPC channel is open
     calls |-> 0,                   \* calls of shutdownServer()
     callbackRuns |-> 0,            \* what shutdownServer() has done so far
     httpDrains |-> 0,
     httpsDrains |-> 0,
     notifications |-> 0,
     ranServerRunning |-> FALSE,
     pings |-> 0,                   \* pingConsole messages sent
     shutdownSent |-> FALSE]        \* the master has sent it 'shutdown'

\* cluster.fork(), n times
RECURSIVE Fork(_, _, _, _)
Fork(pool, id, gen, n) ==
    IF n = 0 THEN pool
    ELSE Fork([w \in DOMAIN pool \cup {id} |->
                  IF w = id THEN NewWorker(gen) ELSE pool[w]], id + 1, gen, n - 1)

(***************************************************************************)
(* UnnodeMaster.init                                                       *)
(***************************************************************************)
\* the UNNODE_WORKERS check of init(): TRUE when cpuCount is used
UseCpuCount(v, cpuCount) ==
    IsNaN(v) \/ LessThan(v, 1) \/ GreaterThan(v, cpuCount)

\* this._numWorkers = parseInt(workers)
DesiredWorkers(v, cpuCount) ==
    IF UseCpuCount(v, cpuCount) THEN cpuCount ELSE ParseInt(v)

\* how often the loop "for (let i = 0; i < workers; i++)" forks
InitForks(v, cpuCount) ==
    IF UseCpuCount(v, cpuCount) THEN cpuCount ELSE LoopCount(v, 0)

MasterInit ==
    /\ masterPc = "new"
    /\ masterPc' = "running"
    /\ numWorkers' = DesiredWorkers(env.workers, env.cpus)
    /\ LET n == InitForks(env.workers, env.cpus)
       IN  /\ workers' = Fork(workers, nextId, 0, n)
           /\ nextId' = nextId + n
    /\ UNCHANGED <<env, firstInitDone, numWorkersReady, shutdownSignalReceived, timers,
                   hist>>

NextInit == MasterInit /\ UNCHANGED <<clock, local>>

SpecInit == InitAnyWorkers /\ [][NextInit]_vars

(***************************************************************************)
(* UnnodeWorker.shutdownServer, cut at its awaits.                         *)
(***************************************************************************)
\* process.send(message) in a worker: lost when the channel is closed
Send(r, message) ==
    IF r.connected THEN [r EXCEPT !.outbox = Append(@, message)] ELSE r

\* process.send({ 'type': 'shutdown' })
NotifyShutdown(r) ==
    [Send(r, "shutdown") EXCEPT !.sd = "done", !.notifications = @ + 1]

\* from "if (this._httpsTerminator !== null)" on
AfterHttpDrain(r) ==
    IF r.httpsTerminator
    THEN [r EXCEPT !.sd = "drainHttps", !.httpsDrains = @ + 1,
                   !.serverSecure = IF @ = "listening" THEN "draining" ELSE @]
    ELSE NotifyShutdown(r)

\* from "if (this._httpTerminator !== null)" on
AfterCallback(r) ==
    IF r.httpTerminator
    THEN [r EXCEPT !.sd = "drainHttp", !.httpDrains = @ + 1,
                   !.serverInsecure = IF @ = "listening" THEN "draining" ELSE @]
    ELSE AfterHttpDrain(r)

\* shutdownServer() without its "_serverQuitting === false" test
ShutdownServerUnguarded(r) ==
    LET q == [r EXCEPT !.serverQuitting = TRUE, !.pingInterval = FALSE,
                       !.calls = @ + 1]
    IN  IF env.shutdownCallback
        THEN [q EXCEPT !.sd = "callback", !.callbackRuns = @ + 1]
        ELSE AfterCallback(q)

\* a call of shutdownServer(), up to its first await
ShutdownServer(r) ==
    IF r.serverQuitting = FALSE
    THEN LET q == [r EXCEPT !.serverQuitting = TRUE, !.pingInterval = FALSE,
                            !.calls = @ + 1]
         IN  IF env.shutdownCallback
             THEN [q EXCEPT !.sd = "callback", !.callbackRuns = @ + 1]
             ELSE AfterCallback(q)
    ELSE [r EXCEPT !.calls = @ + 1]

(***************************************************************************)
(* UnnodeWorker.setupServer and runServer, cut at their awaits.            *)
(***************************************************************************)
\* the end of runServer(): the no-listener check, then serverRunning
FinishRunServer(r) ==
    IF r.serverInsecure = "null" /\ r.serverSecure = "null"
    THEN [ShutdownServer(r) EXCEPT !.pc = "served"]
    ELSE [Send(r, "serverRunning") EXCEPT !.pc = "served", !.ranServerRunning = TRUE]

\* runServer() from "if (portSecure && !isNaN(portSecure))" on
StartSecure(r) ==
    IF env.portSecure
    THEN IF env.tlsReadable
         THEN [r EXCEPT !.pc = "httpsBind", !.serverSecure = "binding"]
         ELSE [r EXCEPT !.pc = "stuck"]     \* reject(): runServer() throws
    ELSE FinishRunServer(r)

\* runServer() from its start
RunServer(r) ==
    IF env.portInsecure
    THEN [r EXCEPT !.pc = "httpBind", !.serverInsecure = "binding"]
    ELSE StartSecure(r)

Alive(w) == w \in Pool

Update(w, r) == workers' = [workers EXCEPT ![w] = r]

workerFrame == <<env, masterVars, nextId, timers, hist>>

\* setupServer() (the heartbeat interval is set), then runServer() is called
WorkerStart(w) ==
    /\ Alive(w)
    /\ workers[w].pc = "setup"
    /\ Update(w, RunServer([workers[w] EXCEPT !.pingInterval = TRUE]))
    /\ UNCHANGED workerFrame

\* the 'listening' callback of _startHttpServer, and runServer() after it
\* (a worker of a cluster binds through the IPC channel to the master)
HttpListening(w) ==
    /\ Alive(w)
    /\ workers[w].pc = "httpBind"
    /\ workers[w].serverInsecure = "binding"
    /\ workers[w].connected
    /\ Update(w, StartSecure([workers[w] EXCEPT !.serverInsecure = "listening",
                                                !.httpTerminator = TRUE]))
    /\ UNCHANGED workerFrame

\* the 'listening' callback of _startHttpSecureServer, and runServer() after it
HttpsListening(w) ==
    /\ Alive(w)
    /\ workers[w].pc = "httpsBind"
    /\ workers[w].serverSecure = "binding"
    /\ workers[w].connected
    /\ Update(w, FinishRunServer([workers[w] EXCEPT !.serverSecure = "listening",
                                                    !.httpsTerminator = TRUE]))
    /\ UNCHANGED workerFrame

\* _handleHttpServerError without its shutdownServer() call
ServerErrorLogOnly(w) ==
    /\ Alive(w)
    /\ hist.faults < MaxFaults
    /\ \/ /\ workers[w].serverInsecure = "binding"
          /\ Update(w, [workers[w] EXCEPT !.serverInsecure = "error", !.pc = "stuck"])
       \/ /\ workers[w].serverSecure = "binding"
          /\ Update(w, [workers[w] EXCEPT !.serverSecure = "error", !.pc = "stuck"])
    /\ hist' = [hist EXCEPT !.faults = @ + 1]
    /\ UNCHANGED <<env, masterVars, nextId, timers>>

\* _handleHttpServerError: an 'error' event of a listener that is binding;
\* the promise runServer() awaits is never settled
ServerError(w) ==
    /\ Alive(w)
    /\ hist.faults < MaxFaults
    /\ \/ /\ workers[w].serverInsecure = "binding"
          /\ Update(w, ShutdownServer([workers[w] EXCEPT !.serverInsecure = "error",
                                                         !.pc = "stuck"]))
       \/ /\ workers[w].serverSecure = "binding"
          /\ Update(w, ShutdownServer([workers[w] EXCEPT !.serverSecure = "error",
                                                         !.pc = "stuck"]))
    /\ hist' = [hist EXCEPT !.faults = @ + 1]
    /\ UNCHANGED <<env, masterVars, nextId, timers>>

\* process.on('message'): the 'shutdown' command of the master (a command
\* sent after the channel was closed is never delivered)
WorkerMessage(w) ==
    /\ Alive(w)
    /\ workers[w].connected
    /\ workers[w].inbox > 0
    /\ Update(w, ShutdownServer([workers[w] EXCEPT !.inbox = @ - 1]))
    /\ UNCHANGED workerFrame

\* the pre-shutdown callback returns
CallbackDone(w) ==
    /\ Alive(w)
    /\ workers[w].sd = "callback"
    /\ Update(w, AfterCallback(workers[w]))
    /\ UNCHANGED workerFrame

\* this._httpTerminator.terminate() resolves: the listener is closed
HttpDrained(w) ==
    /\ Alive(w)
    /\ workers[w].sd = "drainHttp"
    /\ Update(w, AfterHttpDrain([workers[w] EXCEPT !.serverInsecure = "closed"]))
    /\ UNCHANGED workerFrame

\* this._httpsTerminator.terminate() resolves: the listener is closed
HttpsDrained(w) ==
    /\ Alive(w)
    /\ workers[w].sd = "drainHttps"
    /\ Update(w, NotifyShutdown([workers[w] EXCEPT !.serverSecure = "closed"]))
    /\ UNCHANGED workerFrame

(***************************************************************************)
(* UnnodeMaster: the cluster event handlers and the signal handlers.       *)
(***************************************************************************)
\* cluster.workers[id].send('shutdown')
MasterCommand(r) == [r EXCEPT !.inbox = @ + 1, !.shutdownSent = TRUE]

\* a listener of the worker is bound and takes new connections
Accepting(r) ==
    r.serverInsecure = "listening" \/ r.serverSecure = "listening"

AcceptingCount == Cardinality({w \in Pool : Accepting(workers[w])})

\* the 'serverRunning' case without its "!this._firstInitDone" test
ServerRunningUnguarded ==
    /\ numWorkersReady' = numWorkersReady + 1
    /\ IF numWorkersReady + 1 = numWorkers
       THEN /\ firstInitDone' = TRUE
            /\ hist' = [hist EXCEPT !.allOnline = @ + 1]
       ELSE UNCHANGED <<firstInitDone, hist>>

\* the 'serverRunning' case of _messageFromWorker
ServerRunning ==
    IF ~firstInitDone
    THEN /\ numWorkersReady' = numWorkersReady + 1
         /\ IF numWorkersReady + 1 = numWorkers
            THEN /\ firstInitDone' = TRUE
                 /\ hist' = [hist EXCEPT !.allOnline = @ + 1]
            ELSE UNCHANGED <<firstInitDone, hist>>
    ELSE UNCHANGED <<numWorkersReady, firstInitDone, hist>>

\* worker.disconnect(): the worker closes its servers, then the IPC channel
Disconnect(r) ==
    [r EXCEPT !.connected = FALSE,
              !.serverInsecure = IF @ = "listening" THEN "closed" ELSE @,
              !.serverSecure = IF @ = "listening" THEN "closed" ELSE @]

\* _messageFromWorker: the master handles the next message of worker w
MasterMessage(w) ==
    /\ w \in Pool
    /\ workers[w].outbox # <<>>
    /\ LET message == Head(workers[w].outbox)
           rest    == [workers[w] EXCEPT !.outbox = Tail(@)]
       IN  \/ /\ message = "shutdown"
              /\ Update(w, Disconnect(rest))
              /\ UNCHANGED <<numWorkersReady, firstInitDone, hist>>
           \/ /\ message = "serverRunning"
              /\ Update(w, rest)
              /\ ServerRunning
           \/ /\ message = "pingConsole"
              /\ Update(w, rest)
              /\ UNCHANGED <<numWorkersReady, firstInitDone, hist>>
    /\ UNCHANGED <<env, masterPc, numWorkers, shutdownSignalReceived, nextId, timers>>

ShutdownSignals == {"SIGINT", "SIGTERM"}

\* exit codes are kept as strings: "null" when a signal ended the process
ExitCodes == {"0", "1", "null"}

ExitSignals == {"null", "SIGINT", "SIGTERM", "SIGKILL", "SIGSEGV"}

\* how a worker process can end by itself: with code 0 once the master has
\* closed its IPC channel, or by crashing (SIGINT and SIGTERM end it only
\* before its constructor has installed the handlers)
ExitPossible(r, code, signal) ==
    \/ ~r.connected /\ ~r.pingInterval /\ code = "0" /\ signal = "null"
    \/ /\ hist.faults < MaxFaults
       /\ \/ code = "1" /\ signal = "null"
          \/ code = "null" /\ signal = "SIGSEGV"
          \/ code = "null" /\ signal \in ShutdownSignals /\ r.pc = "setup"

\* the test of _workerExit without its "!this._firstInitDone" operand
NoRestartAfterInit(code, signal) ==
    code = "0" \/ signal = "SIGTERM" \/ signal = "SIGINT"

\* the test of _workerExit: TRUE when no replacement is forked
NoRestart(code, signal) ==
    code = "0" \/ ~firstInitDone \/ signal = "SIGTERM" \/ signal = "SIGINT"

\* _workerExit, for worker w that cluster has dropped from the pool
WorkerExitHandler(w, code, signal) ==
    LET left == [v \in Pool \ {w} |-> workers[v]]
    IN  IF NoRestart(code, signal)
        THEN /\ workers' = left
             /\ UNCHANGED nextId
        ELSE /\ nextId <= MaxWorkerId
             /\ workers' = Fork(left, nextId, hist.restarts, 1)
             /\ nextId' = nextId + 1

\* worker w ends by itself and the master handles its 'exit' event
WorkerExit(w, code, signal) ==
    /\ w \in Pool
    /\ ExitPossible(workers[w], code, signal)
    /\ WorkerExitHandler(w, code, signal)
    /\ hist' = [hist EXCEPT !.faults = IF code = "0" THEN @ ELSE @ + 1]
    /\ UNCHANGED <<env, masterVars, timers>>

\* _shutdownWorkers with a cluster.fork() after its loop
ShutdownWorkersForking ==
    /\ workers' = Fork([w \in Pool |-> MasterCommand(workers[w])], nextId, hist.restarts, 1)
    /\ hist' = [hist EXCEPT !.broadcasts = @ + 1, !.signals = @ + 1]

\* _shutdownWorkers
ShutdownWorkers ==
    /\ workers' = [w \in Pool |-> MasterCommand(workers[w])]
    /\ hist' = [hist EXCEPT !.broadcasts = @ + 1, !.signals = @ + 1]

\* the SIGINT / SIGTERM handler without its "shutdownSignalReceived" test
ShutdownSignalUnguarded(signal) ==
    /\ masterPc = "running"
    /\ hist.signals < MaxSignals
    /\ shutdownSignalReceived' = TRUE
    /\ ShutdownWorkers
    /\ UNCHANGED <<env, masterPc, firstInitDone, numWorkers, numWorkersReady,
                   nextId, timers>>

\* the SIGINT / SIGTERM handler of init()
ShutdownSignal(signal) ==
    /\ masterPc = "running"
    /\ hist.signals < MaxSignals
    /\ IF shutdownSignalReceived = FALSE
       THEN /\ shutdownSignalReceived' = TRUE
            /\ ShutdownWorkers
       ELSE /\ UNCHANGED <<shutdownSignalReceived, workers>>
            /\ hist' = [hist EXCEPT !.signals = @ + 1]
    /\ UNCHANGED <<env, masterPc, firstInitDone, numWorkers, numWorkersReady,
                   nextId, timers>>

\* the pending force-kill timers of worker id w
TimerCount(t, w) == IF w \in DOMAIN t THEN t[w] ELSE 0

\* setTimeout(..., 6000), once for each worker of the pool
AddTimers(pool) ==
    [w \in DOMAIN timers \cup pool |->
        TimerCount(timers, w) + (IF w \in pool THEN 1 ELSE 0)]

\* _restartWorkers with cluster.fork() after its loop instead of inside it
RestartWorkersForkOnce ==
    /\ hist.restarts < MaxRestarts
    /\ nextId <= MaxWorkerId
    /\ numWorkersReady' = 0
    /\ firstInitDone' = FALSE
    /\ workers' = Fork([w \in Pool |-> MasterCommand(workers[w])],
                       nextId, hist.restarts + 1, 1)
    /\ timers' = AddTimers(Pool)
    /\ nextId' = nextId + 1
    /\ hist' = [hist EXCEPT !.restarts = @ + 1, !.allOnline = 0,
                            !.acceptingAtRestart = AcceptingCount >= 1,
                            !.lastReload = "restarted"]

\* _restartWorkers
\* _restartWorkers without its first two assignments
RestartWorkersKeepFlag ==
    /\ hist.restarts < MaxRestarts
    /\ nextId + Cardinality(Pool) - 1 <= MaxWorkerId
    /\ UNCHANGED <<numWorkersReady, firstInitDone>>
    /\ workers' = Fork([w \in Pool |-> MasterCommand(workers[w])],
                       nextId, hist.restarts + 1, Cardinality(Pool))
    /\ timers' = AddTimers(Pool)
    /\ nextId' = nextId + Cardinality(Pool)
    /\ hist' = [hist EXCEPT !.restarts = @ + 1, !.allOnline = 0,
                            !.acceptingAtRestart = AcceptingCount >= 1,
                            !.lastReload = "restarted"]

RestartWorkers ==
    /\ hist.restarts < MaxRestarts
    /\ nextId + Cardinality(Pool) - 1 <= MaxWorkerId
    /\ numWorkersReady' = 0
    /\ firstInitDone' = FALSE
    /\ workers' = Fork([w \in Pool |-> MasterCommand(workers[w])],
                       nextId, hist.restarts + 1, Cardinality(Pool))
    /\ timers' = AddTimers(Pool)
    /\ nextId' = nextId + Cardinality(Pool)
    /\ hist' = [hist EXCEPT !.restarts = @ + 1, !.allOnline = 0,
                            !.acceptingAtRestart = AcceptingCount >= 1,
                            !.lastReload = "restarted"]

\* the SIGUSR2 handler without its "this._firstInitDone === true" test
ReloadSignalUnguarded ==
    /\ masterPc = "running"
    /\ RestartWorkers
    /\ UNCHANGED <<env, masterPc, numWorkers, shutdownSignalReceived>>

\* the SIGUSR2 handler of init()
ReloadSignal ==
    /\ masterPc = "running"
    /\ IF firstInitDone = TRUE
       THEN RestartWorkers
       ELSE /\ UNCHANGED <<numWorkersReady, firstInitDone, workers, timers, nextId>>
            /\ hist' = [hist EXCEPT !.lastReload = "ignored"]
    /\ UNCHANGED <<env, masterPc, numWorkers, shutdownSignalReceived>>

\* the setTimeout callback reading the function-level "let wid", which holds
\* the last worker id of the pool once the loop has ended
ForceKillShared(w) ==
    /\ w \in DOMAIN timers
    /\ timers' = [v \in {u \in DOMAIN timers : u # w \/ timers[u] > 1} |->
                     IF v = w THEN timers[v] - 1 ELSE timers[v]]
    /\ IF Pool # {}
       THEN WorkerExitHandler(CHOOSE v \in Pool : \A u \in Pool : u <= v, "null", "SIGKILL")
       ELSE UNCHANGED <<workers, nextId>>
    /\ UNCHANGED <<env, masterVars, hist>>

\* the callback of setTimeout(..., 6000) for worker id w; a worker it kills
\* ends at once and the master handles its 'exit' event
ForceKill(w) ==
    /\ w \in DOMAIN timers
    /\ timers' = [v \in {u \in DOMAIN timers : u # w \/ timers[u] > 1} |->
                     IF v = w THEN timers[v] - 1 ELSE timers[v]]
    /\ IF w \in Pool
       THEN WorkerExitHandler(w, "null", "SIGKILL")
       ELSE UNCHANGED <<workers, nextId>>
    /\ UNCHANGED <<env, masterVars, hist>>

(***************************************************************************)
(* The lifecycle specification: every handler of the master and of the     *)
(* workers, in any order (a timer may fire, and a drain may end, at any    *)
(* time).                                                                  *)
(***************************************************************************)
WorkerIds == 1..MaxWorkerId

Next ==
    \/ MasterInit /\ UNCHANGED <<clock, local>>
    \/ \E w \in WorkerIds : WorkerStart(w) /\ UNCHANGED <<clock, local>>
    \/ \E w \in WorkerIds : HttpListening(w) /\ UNCHANGED <<clock, local>>
    \/ \E w \in WorkerIds : HttpsListening(w) /\ UNCHANGED <<clock, local>>
    \/ \E w \in WorkerIds : ServerError(w) /\ UNCHANGED <<clock, local>>
    \/ \E w \in WorkerIds : WorkerMessage(w) /\ UNCHANGED <<clock, local>>
    \/ \E w \in WorkerIds : CallbackDone(w) /\ UNCHANGED <<clock, local>>
    \/ \E w \in WorkerIds : HttpDrained(w) /\ UNCHANGED <<clock, local>>
    \/ \E w \in WorkerIds : HttpsDrained(w) /\ UNCHANGED <<clock, local>>
    \/ \E w \in WorkerIds : MasterMessage(w) /\ UNCHANGED <<clock, local>>
    \/ \E w \in WorkerIds, code \in ExitCodes, signal \in ExitSignals :
          WorkerExit(w, code, signal) /\ UNCHANGED <<clock, local>>
    \/ \E signal \in ShutdownSignals : ShutdownSignal(signal) /\ UNCHANGED <<clock, local>>
    \/ ReloadSignal /\ UNCHANGED <<clock, local>>
    \/ \E w \in WorkerIds : ForceKill(w) /\ UNCHANGED <<clock, local>>

Spec == Init /\ [][Next]_vars

(***************************************************************************)
(* The listen specification: the lifecycle specification for one worker    *)
(* and every combination of a valid insecure port, a valid secure port and *)
(* a readable default TLS key and certificate.                             *)
(***************************************************************************)
ListenDeployments ==
    {Env(<<"1">>, CpuCount, pi, ps, tls, TRUE) : pi \in BOOLEAN, ps \in BOOLEAN, tls \in BOOLEAN}

InitListen == env \in ListenDeployments /\ InitMaster

SpecListen == InitListen /\ [][Next]_vars

(***************************************************************************)
(* The fair specification: the lifecycle specification for a deployment    *)
(* with both listeners and a pre-shutdown callback, with the steps the     *)
(* code and Node.js carry out by themselves taken sooner or later: IPC     *)
(* messages are handled, a graceful termination ends (it is bounded by     *)
(* gracefulTerminationTimeout), a timer fires, a process whose channel was *)
(* closed exits.  Nothing is assumed of signals, of crashes, of the time   *)
(* startup takes, or of the pre-shutdown callback, which is the            *)
(* application's.                                                          *)
(***************************************************************************)
FairDeployments == {Env(<<"1">>, CpuCount, TRUE, TRUE, TRUE, TRUE)}

InitFair == env \in FairDeployments /\ InitMaster

Fairness ==
    \A w \in WorkerIds :
        /\ WF_vars(WorkerMessage(w) /\ UNCHANGED <<clock, local>>)
        /\ WF_vars(HttpDrained(w) /\ UNCHANGED <<clock, local>>)
        /\ WF_vars(HttpsDrained(w) /\ UNCHANGED <<clock, local>>)
        /\ WF_vars(MasterMessage(w) /\ UNCHANGED <<clock, local>>)
        /\ WF_vars(WorkerExit(w, "0", "null") /\ UNCHANGED <<clock, local>>)
        /\ WF_vars(ForceKill(w) /\ UNCHANGED <<clock, local>>)

SpecFair == InitFair /\ [][Next]_vars /\ Fairness

(***************************************************************************)
(* The quiescence specification: the fair specification with, in addition, *)
(* every pre-shutdown callback returning and the startup of every worker   *)
(* going on (setupServer and runServer are called, a bind is answered      *)
(* while the channel to the master is open).                               *)
(***************************************************************************)
StartupFairness ==
    \A w \in WorkerIds :
        /\ WF_vars(CallbackDone(w) /\ UNCHANGED <<clock, local>>)
        /\ WF_vars(WorkerStart(w) /\ UNCHANGED <<clock, local>>)
        /\ WF_vars(HttpListening(w) /\ UNCHANGED <<clock, local>>)
        /\ WF_vars(HttpsListening(w) /\ UNCHANGED <<clock, local>>)

SpecQuiesce == InitFair /\ [][Next]_vars /\ Fairness /\ StartupFairness

\* the restart specification: the same fairness for the deployment of the
\* fair specification and for a pool of cpuCount workers with an HTTP
\* listener and no callback
RestartDeployments ==
    FairDeployments \cup {Env(Undefined, CpuCount, TRUE, FALSE, TRUE, FALSE)}

InitRestart == env \in RestartDeployments /\ InitMaster

SpecRestart == InitRestart /\ [][Next]_vars /\ Fairness /\ StartupFairness

(***************************************************************************)
(* The heartbeat specification: the lifecycle specification of one worker  *)
(* with both listeners and a pre-shutdown callback, together with the      *)
(* callback of the interval setupServer sets, which the other              *)
(* specifications leave out (the master keeps nothing of a pingConsole     *)
(* message).                                                               *)
(***************************************************************************)
\* most pingConsole messages a worker sends
MaxPings == 1

\* the callback of this._pingInterval
PingConsole(w) ==
    /\ Alive(w)
    /\ workers[w].pingInterval
    /\ workers[w].pings < MaxPings
    /\ Update(w, [Send(workers[w], "pingConsole") EXCEPT !.pings = @ + 1])
    /\ UNCHANGED workerFrame

NextHeartbeat ==
    \/ Next
    \/ \E w \in WorkerIds : PingConsole(w) /\ UNCHANGED <<clock, local>>

SpecHeartbeat == InitFair /\ [][NextHeartbeat]_vars

(***************************************************************************)
(* The timed specification: the same handlers, with the time the timers    *)
(* take, in units of 1000 ms.  clock.kill[w] holds the time left on each   *)
(* force-kill timer of worker id w, clock.drain[w] the time left of the    *)
(* graceful termination that worker w awaits.  IPC messages are handled    *)
(* before time passes; startup, the pre-shutdown callback and the end of a *)
(* disconnected process take any time.                                     *)
(***************************************************************************)
Draining(r) == r.sd \in {"drainHttp", "drainHttps"}

\* the clock after a handler has run
ClockAfter ==
    [kill |->
        [w \in DOMAIN timers' |->
            IF TimerCount(timers', w) > TimerCount(timers, w)
            THEN (IF w \in DOMAIN clock.kill THEN clock.kill[w] ELSE <<>>)
                     \o <<ForceKillTimeout>>
            ELSE IF TimerCount(timers', w) < TimerCount(timers, w)
            THEN Tail(clock.kill[w])
            ELSE clock.kill[w]],
     drain |->
        [w \in {v \in DOMAIN workers' : Draining(workers'[v])} |->
            IF w \in DOMAIN clock.drain /\ workers'[w].sd = workers[w].sd
            THEN clock.drain[w]
            ELSE GracefulTerminationTimeout]]

Timed(A) == A /\ clock' = ClockAfter /\ UNCHANGED local

\* a force-kill timer of worker id w is due (of a termination that reaches
\* its bound and a timer that is due at the same instant, the termination
\* ends first)
KillDue(w) ==
    /\ w \in DOMAIN clock.kill
    /\ Head(clock.kill[w]) = 0
    /\ \A v \in DOMAIN clock.drain : clock.drain[v] > 0

\* a message waits to be handled
MessagePending ==
    \E w \in Pool : \/ workers[w].outbox # <<>>
                    \/ workers[w].connected /\ workers[w].inbox > 0

\* 1000 ms pass
Tick ==
    /\ DOMAIN clock.kill \cup DOMAIN clock.drain # {}
    /\ ~MessagePending
    /\ \A w \in DOMAIN clock.kill : Head(clock.kill[w]) > 0
    /\ \A w \in DOMAIN clock.drain : clock.drain[w] > 0
    /\ clock' = [kill |-> [w \in DOMAIN clock.kill |->
                              [i \in DOMAIN clock.kill[w] |-> clock.kill[w][i] - 1]],
                 drain |-> [w \in DOMAIN clock.drain |-> clock.drain[w] - 1]]
    /\ UNCHANGED <<env, masterVars, workers, nextId, timers, hist, local>>

TimedNext ==
    \/ Timed(MasterInit)
    \/ \E w \in WorkerIds : Timed(WorkerStart(w))
    \/ \E w \in WorkerIds : Timed(HttpListening(w))
    \/ \E w \in WorkerIds : Timed(HttpsListening(w))
    \/ \E w \in WorkerIds : Timed(ServerError(w))
    \/ \E w \in WorkerIds : Timed(WorkerMessage(w))
    \/ \E w \in WorkerIds : Timed(CallbackDone(w))
    \/ \E w \in WorkerIds : Timed(HttpDrained(w))
    \/ \E w \in WorkerIds : Timed(HttpsDrained(w))
    \/ \E w \in WorkerIds : Timed(MasterMessage(w))
    \/ \E w \in WorkerIds, code \in ExitCodes, signal \in ExitSignals :
          Timed(WorkerExit(w, code, signal))
    \/ \E signal \in ShutdownSignals : Timed(ShutdownSignal(signal))
    \/ Timed(ReloadSignal)
    \/ \E w \in WorkerIds : KillDue(w) /\ Timed(ForceKill(w))
    \/ Tick

\* the deployments of the timed specification: one worker, with an HTTP
\* listener or with an HTTP and an HTTPS listener, with and without a
\* pre-shutdown callback
TimedDeployments ==
    { Env(<<"1">>, CpuCount, TRUE, FALSE, TRUE, FALSE),
      Env(<<"1">>, CpuCount, TRUE, TRUE, TRUE, FALSE),
      Env(<<"1">>, CpuCount, TRUE, FALSE, TRUE, TRUE) }

InitTimed == env \in TimedDeployments /\ InitMaster

SpecTimed == InitTimed /\ [][TimedNext]_vars

(***************************************************************************)
(* ExpressVhostRouter.  Host names are kept as the sequences of their      *)
(* characters; an absent header is Undefined.                              *)
(***************************************************************************)
\* longest host header tried
MaxHostLen == 3
\* most register() calls tried
MaxRoutes == 2

HostChars == {"a", ".", ":"}

RECURSIVE StringsOver(_, _)
StringsOver(chars, n) ==
    IF n = 0 THEN {<<>>}
    ELSE LET shorter == StringsOver(chars, n - 1)
         IN  shorter \cup {Append(t, c) : t \in {u \in shorter : Len(u) = n - 1}, c \in chars}

\* names of properties every object inherits from Object.prototype
ConstructorName == <<"c", "o", "n", "s", "t", "r", "u", "c", "t", "o", "r">>

ProtoName == <<"_", "_", "p", "r", "o", "t", "o", "_", "_">>

\* the host and x-forwarded-host headers tried
HostHeaders ==
    StringsOver(HostChars, MaxHostLen)
        \cup {Undefined, ConstructorName, ProtoName, <<"a", ".", "a", ".", "a">>}

ForwardedHeaders == {Undefined, <<>>, <<"a">>, <<"a", ".", "a">>, <<"a", ":", "a">>}

\* the host names tried with register()
RouteKeys ==
    { <<>>, <<"a">>, <<"a", "a">>, <<"a", ".", "a">>, <<".", "a">>,
      <<"*">>, <<"*", "a">>, <<"*", ".", "a">> }

\* what register() is given: an Express application (a function) or an
\* object with emit()
Apps == {"function", "emitter"}

\* !value, for a header
Falsy(s) == s = Undefined \/ Len(s) = 0

\* s.indexOf(c), counted from 0; -1 when c does not occur
IndexOf(s, c) ==
    IF \E i \in 1..Len(s) : s[i] = c
    THEN (CHOOSE i \in 1..Len(s) : s[i] = c /\ \A j \in 1..(i - 1) : s[j] # c) - 1
    ELSE -1

\* s.substr(start): a negative start counts from the end
Substr(s, start) ==
    LET from == IF start < 0
                THEN (IF Len(s) + start < 0 THEN 0 ELSE Len(s) + start)
                ELSE start
    IN  SubSeq(s, from + 1, Len(s))

\* s.split(':')[0]
SplitPort(s) ==
    LET i == IndexOf(s, ":") IN IF i = -1 THEN s ELSE SubSeq(s, 1, i)

\* '*' + host.substr(host.indexOf('.'))
WildcardKey(host) == <<"*">> \o Substr(host, IndexOf(host, "."))

\* this._hostDictionary[key]: an own property, or one inherited from
\* Object.prototype; "undefined" when there is none
Lookup(dict, key) ==
    IF key \in DOMAIN dict THEN dict[key]
    ELSE IF key = ConstructorName THEN "Object"
    ELSE IF key = ProtoName THEN "Object.prototype"
    ELSE "undefined"

\* the outcome of one request: the calls of next(), the value the request
\* was handed to ("none": to none), the key it was found under, and
\* whether the interceptor threw
Outcome(nexts, app, key, how, threw) ==
    [nexts |-> nexts, app |-> app, key |-> key, how |-> how, threw |-> threw]

PassThrough == Outcome(1, "none", <<>>, "none", FALSE)

\* the interceptor from "if (typeof app === 'function')" on
Dispatch(app, key) ==
    IF app \in {"function", "Object"} THEN Outcome(0, app, key, "call", FALSE)
    ELSE IF app = "emitter" THEN Outcome(0, app, key, "emit", FALSE)
    ELSE Outcome(0, "none", key, "none", TRUE)  \* app.emit is not a function

\* the host name the interceptor looks up
RequestHost(hostHeader, forwarded, trustProxy) ==
    IF trustProxy /\ ~Falsy(forwarded) THEN SplitPort(forwarded) ELSE SplitPort(hostHeader)

\* the interceptor with the wildcard entry looked up before the exact one
InterceptWildcardFirst(dict, hostHeader, forwarded, trustProxy) ==
    IF Falsy(hostHeader) THEN PassThrough
    ELSE LET host == RequestHost(hostHeader, forwarded, trustProxy)
             wild == Lookup(dict, WildcardKey(host))
             key  == IF wild = "undefined" THEN host ELSE WildcardKey(host)
             app  == Lookup(dict, key)
         IN  IF app = "undefined" THEN PassThrough ELSE Dispatch(app, key)

\* the interceptor middleware(trustProxy) returns, for one request
Intercept(dict, hostHeader, forwarded, trustProxy) ==
    IF Falsy(hostHeader) THEN PassThrough
    ELSE LET host  == RequestHost(hostHeader, forwarded, trustProxy)
             exact == Lookup(dict, host)
             key   == IF exact = "undefined" THEN WildcardKey(host) ELSE host
             app   == Lookup(dict, key)
         IN  IF app = "undefined" THEN PassThrough ELSE Dispatch(app, key)

\* register(host, app)
Register(host, app) ==
    /\ Cardinality(DOMAIN hostDictionary \cup {host}) <= MaxRoutes
    /\ hostDictionary' = [k \in DOMAIN hostDictionary \cup {host} |->
                             IF k = host THEN app ELSE hostDictionary[k]]
    /\ UNCHANGED call

\* one request passes through the interceptor (which keeps nothing from one
\* request to the next: a behaviour follows one request)
Middleware(hostHeader, forwarded, trustProxy) ==
    /\ call = NoCall
    /\ call' = [fn |-> "middleware", routes |-> hostDictionary,
                host |-> hostHeader, forwarded |-> forwarded, trustProxy |-> trustProxy,
                outcome |-> Intercept(hostDictionary, hostHeader, forwarded, trustProxy)]
    /\ UNCHANGED hostDictionary

lifecycleVars == <<env, masterVars, workers, nextId, timers, clock, hist>>

(***************************************************************************)
(* setupServer: the server config file is parsed, then every entry adds    *)
(* its routes to its application and registers its host names.  What the   *)
(* file exports is a list of entries or something else; an entry is a      *)
(* plain object with a "vhost" list and routes, or one of the malformed    *)
(* kinds _parseConfigEntry tells apart.  No secure port is set, so the     *)
(* secure contexts of the entries are not read.                            *)
(***************************************************************************)
RECURSIVE SeqsUpTo(_, _)
SeqsUpTo(set, n) ==
    IF n = 0 THEN {<<>>}
    ELSE LET shorter == SeqsUpTo(set, n - 1)
         IN  shorter \cup {Append(t, e) : t \in {u \in shorter : Len(u) = n - 1}, e \in set}

\* most entries of a server config tried
MaxEntries == 2

\* longest "vhost" list tried
MaxVhosts == 2

\* most routes of an entry tried
MaxEntryRoutes == 1

\* a host name of a config entry that is not a string
NotAString == <<"number">>

ConfigHosts == {NotAString, <<>>, <<"a">>, <<"*">>}

\* a route: static files, a controller that resolves, one that does not
RouteKinds == {"static", "resolved", "unresolved"}

\* config.secureContext: absent, a value that is not a plain object, or a
\* plain object naming a key file and a certificate file (each readable or
\* not) and naming a CA file or not
NoSecureContext == [kind |-> "none", key |-> TRUE, cert |-> TRUE, ca |-> "none"]

SecureContexts ==
    [kind : {"none", "other"}, key : {TRUE}, cert : {TRUE}, ca : {"none"}]
    \cup [kind : {"object"}, key : BOOLEAN, cert : BOOLEAN,
          ca : {"none", "readable", "unreadable"}]

ConfigEntries ==
    [kind : {"object"}, vhost : SeqsUpTo(ConfigHosts, MaxVhosts),
     routes : SeqsUpTo(RouteKinds, MaxEntryRoutes), secureContext : {NoSecureContext}]
    \cup [kind : {"notObject", "noVhost", "vhostNotArray"}, vhost : {<<>>}, routes : {<<>>},
          secureContext : {NoSecureContext}]

\* the entries tried for their certificate material
TlsEntries ==
    [kind : {"object"}, vhost : {<< <<"a">> >>, << <<"*">> >>}, routes : {<<>>},
     secureContext : SecureContexts]

ServerConfigs ==
    [isArray : BOOLEAN, entries : SeqsUpTo(ConfigEntries, MaxEntries)]
    \cup [isArray : {TRUE}, entries : SeqsUpTo(TlsEntries, MaxEntries)]

Elements(seq) == {seq[i] : i \in 1..Len(seq)}

\* _parseConfigEntry from "if(secureServer)" on, without its test of the CA
\* file
ParseSecureContextNoCa(config) ==
    IF env.portSecure /\ config.secureContext.kind = "object"
    THEN IF ~config.secureContext.key THEN "unable to read keyfile"
         ELSE IF ~config.secureContext.cert THEN "unable to read certfile"
         ELSE "none"
    ELSE "none"

\* _parseConfigEntry from "if(secureServer)" on
ParseSecureContext(config) ==
    IF env.portSecure /\ config.secureContext.kind = "object"
    THEN IF ~config.secureContext.key THEN "unable to read keyfile"
         ELSE IF ~config.secureContext.cert THEN "unable to read certfile"
         ELSE IF config.secureContext.ca = "unreadable" THEN "unable to read CA file"
         ELSE "none"
    ELSE "none"

\* _parseConfigEntry: the error it throws, "none" when it returns
ParseConfigEntry(config) ==
    IF config.kind = "notObject" THEN "is not an object"
    ELSE IF config.kind = "noVhost" THEN "missing vhost property"
    ELSE IF config.kind = "vhostNotArray" THEN "vhost must be an array"
    ELSE LET bad == {i \in 1..Len(config.vhost) :
                        config.vhost[i] = NotAString \/ Len(config.vhost[i]) = 0}
         IN  IF bad = {} THEN ParseSecureContext(config)
             ELSE LET i == CHOOSE j \in bad : \A k \in bad : j <= k
                  IN  IF config.vhost[i] = NotAString THEN "vhost is not a string"
                      ELSE "vhost is empty"

\* _parseServerConfig: the first error thrown, "none" when it returns
ParseServerConfig(serverConfig) ==
    IF ~serverConfig.isArray THEN "did not export an array"
    ELSE LET bad == {i \in 1..Len(serverConfig.entries) :
                        ParseConfigEntry(serverConfig.entries[i]) # "none"}
         IN  IF bad = {} THEN "none"
             ELSE ParseConfigEntry(serverConfig.entries[CHOOSE j \in bad : \A k \in bad : j <= k])

\* vhostRouter.register(vhost, vhostApp) for every host name of the list
RegisterAll(dict, vhosts) ==
    [k \in DOMAIN dict \cup Elements(vhosts) |->
        IF k \in Elements(vhosts) THEN "function" ELSE dict[k]]

\* which application each registered host name is bound to: the number of
\* the entry that made it with express()
BindAll(apps, vhosts, idx) ==
    [k \in DOMAIN apps \cup Elements(vhosts) |->
        IF k \in Elements(vhosts) THEN idx ELSE apps[k]]

\* the routes each application has: application 0 is this._serverApp,
\* application i the one entry i made
Install(installed, app, n) ==
    [a \in DOMAIN installed \cup {app} |->
        IF a = app THEN n ELSE installed[a]]

\* the state of setupServer: the dictionary, the applications bound in it,
\* the routes added in all and to each application, the error
SetupState(dict, apps, installed, routes, error) ==
    [dict |-> dict, apps |-> apps, installed |-> installed, routes |-> routes,
     error |-> error]

\* routes.forEach: the routes added before the first controller that does
\* not resolve, and whether there is one
RECURSIVE AddRoutes(_, _)
AddRoutes(routes, added) ==
    IF routes = <<>> THEN [added |-> added, threw |-> FALSE]
    ELSE IF Head(routes) = "unresolved" THEN [added |-> added, threw |-> TRUE]
    ELSE AddRoutes(Tail(routes), added + 1)

\* _setupServerVhost that registers the host names of every entry
SetupServerVhostRegisterAll(st, config, idx) ==
    LET isCatchAllVhost == Len(config.vhost) = 1 /\ config.vhost[1] = <<"*">>
        vhostApp  == IF isCatchAllVhost THEN 0 ELSE idx
        before    == IF vhostApp \in DOMAIN st.installed THEN st.installed[vhostApp] ELSE 0
        r         == AddRoutes(config.routes, 0)
        installed == Install(st.installed, vhostApp, before + r.added)
    IN  IF r.threw
        THEN SetupState(st.dict, st.apps, installed, st.routes + r.added,
                        "Errors while setting up routes")
        ELSE SetupState(RegisterAll(st.dict, config.vhost),
                        BindAll(st.apps, config.vhost, vhostApp),
                        installed, st.routes + r.added, "none")

\* _setupServerVhost, for entry idx of the config
SetupServerVhost(st, config, idx) ==
    LET isCatchAllVhost == Len(config.vhost) = 1 /\ config.vhost[1] = <<"*">>
        vhostApp  == IF isCatchAllVhost THEN 0 ELSE idx
        before    == IF vhostApp \in DOMAIN st.installed THEN st.installed[vhostApp] ELSE 0
        r         == AddRoutes(config.routes, 0)
        installed == Install(st.installed, vhostApp, before + r.added)
    IN  IF r.threw
        THEN SetupState(st.dict, st.apps, installed, st.routes + r.added,
                        "Errors while setting up routes")
        ELSE IF isCatchAllVhost
             THEN SetupState(st.dict, st.apps, installed, st.routes + r.added, "none")
             ELSE SetupState(RegisterAll(st.dict, config.vhost),
                             BindAll(st.apps, config.vhost, vhostApp),
                             installed, st.routes + r.added, "none")

\* this._serverConfig.forEach: stops at the first entry that throws
RECURSIVE ForEachVhost(_, _, _)
ForEachVhost(st, entries, idx) ==
    IF idx > Len(entries) \/ st.error # "none" THEN st
    ELSE ForEachVhost(SetupServerVhost(st, entries[idx], idx), entries, idx + 1)

\* setupServer, up to the heartbeat interval; this._serverApp is made first
SetupServerResult(dict, serverConfig) ==
    LET error == ParseServerConfig(serverConfig)
        start == SetupState(dict, <<>>, Install(<<>>, 0, 0), 0, "none")
    IN  IF error # "none"
        THEN [start EXCEPT !.error = error]
        ELSE ForEachVhost(start, serverConfig.entries, 1)

SetupServer(serverConfig) ==
    /\ call = NoCall
    /\ LET st == SetupServerResult(hostDictionary, serverConfig)
       IN  /\ hostDictionary' = st.dict
           /\ call' = [fn |-> "setupServer", config |-> serverConfig,
                       apps |-> st.apps, installed |-> st.installed,
                       routes |-> st.routes, error |-> st.error]

(***************************************************************************)
(* The specification of server setup: one config file is set up, into the  *)
(* empty dictionary of a new process.                                      *)
(***************************************************************************)
NextSetup == \E serverConfig \in ServerConfigs : SetupServer(serverConfig) /\ UNCHANGED lifecycleVars

\* without and with a valid secure port
SetupDeployments == {Env(Undefined, CpuCount, TRUE, ps, TRUE, FALSE) : ps \in BOOLEAN}

InitSetup == env \in SetupDeployments /\ InitMaster

SpecSetup == InitSetup /\ [][NextSetup]_vars

(***************************************************************************)
(* The SNICallback of _startHttpSecureServer, over a parsed server config: *)
(* a list of entries, each with the set of its host names (includes() does *)
(* not depend on their order) and with or without a secure context of its  *)
(* own.                                                                    *)
(***************************************************************************)
\* the host names of the config entries tried
SniNames == {<<"a">>, <<"a", ".", "a">>, <<"*", ".", "a">>, <<"*", "a">>}

\* the server names a client asks for
Domains == StringsOver({"a", "."}, MaxHostLen) \ {<<>>}

SniEntries == [vhost : SUBSET SniNames, secureContext : BOOLEAN]

SniConfigs == SeqsUpTo(SniEntries, MaxEntries)

\* this._serverConfig.filter(...): the indices of the entries that match
SniMatches(config, domain) ==
    {i \in 1..Len(config) :
        domain \in config[i].vhost \/ WildcardKey(domain) \in config[i].vhost}

\* what the callback hands to cb: the entry whose context it passes (0 for
\* cb() without a context) and whether that entry has a context of its own
SNICallback(config, domain) ==
    LET vhostConfig == SniMatches(config, domain)
    IN  IF Cardinality(vhostConfig) = 1
        THEN LET i == CHOOSE j \in vhostConfig : TRUE
             IN  [entry |-> i, context |-> config[i].secureContext]
        ELSE [entry |-> 0, context |-> FALSE]

\* the entry whose application each host name is registered to once
\* setupServer has gone through the config: a later register() of the same
\* name replaces an earlier one
SniBound(config) ==
    [k \in UNION {config[i].vhost : i \in 1..Len(config)} |->
        CHOOSE i \in 1..Len(config) :
            /\ k \in config[i].vhost
            /\ \A j \in 1..Len(config) : k \in config[j].vhost => j <= i]

\* the entry whose application the host router hands a request for host h
\* to (0: to none): the exact name first, then the wildcard key
RoutedEntry(config, h) ==
    LET apps == SniBound(config)
    IN  IF h \in DOMAIN apps THEN apps[h]
        ELSE IF WildcardKey(h) \in DOMAIN apps THEN apps[WildcardKey(h)]
        ELSE 0

\* one TLS handshake asks for a server name
Handshake(config, domain) ==
    /\ call = NoCall
    /\ call' = [fn |-> "SNICallback", config |-> config, domain |-> domain,
                result |-> SNICallback(config, domain)]
    /\ UNCHANGED hostDictionary

(***************************************************************************)
(* _handleHttpClientError: the listener of 'clientError' of both servers.  *)
(***************************************************************************)
Econnreset == <<"E", "C", "O", "N", "N", "R", "E", "S", "E", "T">>

\* err.code of the errors tried: none, a reset connection, a parse error
ErrorCodes == {Undefined, Econnreset, <<"H", "P", "E">>}

NoResponse == [status |-> 0, contentLength |-> 0, body |-> <<>>]

\* what the handler did to the socket: the response written, whether it
\* called socket.end(), whether an exception left the handler
Handled(response, ended, escaped) ==
    [response |-> response, ended |-> ended, escaped |-> escaped]

\* the catch block: log, then end the socket if it is writable
ClientErrorCatch(writable) == Handled(NoResponse, writable, FALSE)

HandleHttpClientError(code, writable) ==
    IF code = Econnreset \/ ~writable
    THEN Handled(NoResponse, FALSE, FALSE)
    ELSE IF code = Undefined
         \* errorBody.length of undefined throws a TypeError inside try
         THEN ClientErrorCatch(writable)
         \* socket.write(response, 'UTF-8', () => socket.end())
         ELSE Handled([status |-> 400, contentLength |-> Len(code), body |-> code], TRUE, FALSE)

ClientError(code, writable) ==
    /\ call = NoCall
    /\ call' = [fn |-> "clientError", code |-> code, writable |-> writable,
                result |-> HandleHttpClientError(code, writable)]
    /\ UNCHANGED hostDictionary

(***************************************************************************)
(* _startHttpSecureServer up to https.createServer: the default key, the   *)
(* default certificate and the default CA file are read, and the server is *)
(* created or the promise rejected.                                        *)
(***************************************************************************)
\* what an environment variable that names a file can be: not set, the path
\* of a file that cannot be read, the path of a file that can
FilePaths == {"unset", "unreadable", "readable"}

\* utils.readFileSync(file): the data, or null when fs.readFileSync throws
ReadFileSync(file) == IF file = "readable" THEN "data" ELSE "null"

\* whether https.createServer is reached, and whether its options have "ca"
StartHttpSecureServer(key, cert, ca) ==
    LET tlsDefaultKeyData  == ReadFileSync(key)
        tlsDefaultCertData == ReadFileSync(cert)
        tlsDefaultCAdata   == ReadFileSync(ca)
        error == \/ tlsDefaultKeyData = "null"
                 \/ tlsDefaultCertData = "null"
                 \/ (ca # "unset" /\ tlsDefaultCertData = "null")
    IN  IF error
        THEN [created |-> FALSE, ca |-> FALSE]
        ELSE [created |-> TRUE, ca |-> tlsDefaultCAdata # "null"]

\* one call of _startHttpSecureServer
CreateSecureServer(key, cert, ca) ==
    /\ call = NoCall
    /\ call' = [fn |-> "startHttpSecureServer", key |-> key, cert |-> cert, ca |-> ca,
                result |-> StartHttpSecureServer(key, cert, ca)]
    /\ UNCHANGED hostDictionary

(***************************************************************************)
(* The specification of the secure server: it is created, or a connection  *)
(* to it makes a handshake that asks for a server name, or a client error. *)
(***************************************************************************)
NextConnection ==
    \/ \E config \in SniConfigs, domain \in Domains :
          Handshake(config, domain) /\ UNCHANGED lifecycleVars
    \/ \E code \in ErrorCodes, writable \in BOOLEAN :
          ClientError(code, writable) /\ UNCHANGED lifecycleVars
    \/ \E key \in FilePaths, cert \in FilePaths, ca \in FilePaths :
          CreateSecureServer(key, cert, ca) /\ UNCHANGED lifecycleVars

InitConnection == env = Env(Undefined, CpuCount, FALSE, TRUE, TRUE, FALSE) /\ InitMaster

SpecConnection == InitConnection /\ [][NextConnection]_vars

(***************************************************************************)
(* The specification of the host router: a dictionary is built and one     *)
(* request is routed.                                                      *)
(***************************************************************************)
NextRouter ==
    \/ \E host \in RouteKeys, app \in Apps :
          Register(host, app) /\ UNCHANGED lifecycleVars
    \/ \E hostHeader \in HostHeaders, forwarded \in ForwardedHeaders, trustProxy \in BOOLEAN :
          Middleware(hostHeader, forwarded, trustProxy) /\ UNCHANGED lifecycleVars

InitRouter == env = Env(Undefined, CpuCount, TRUE, FALSE, TRUE, FALSE) /\ InitMaster

SpecRouter == InitRouter /\ [][NextRouter]_vars

(***************************************************************************)
(* Observations of one step, used by the properties below.                 *)
(***************************************************************************)
\* the master handles message m of worker w in this step
Delivered(w, m) ==
    /\ w \in Pool
    /\ w \in DOMAIN workers'
    /\ workers[w].outbox # <<>>
    /\ Head(workers[w].outbox) = m
    /\ workers'[w].outbox = Tail(workers[w].outbox)

\* exactly n workers are forked in this step
Forked(n) ==
    /\ nextId' = nextId + n
    /\ DOMAIN workers' \ Pool = nextId..(nextId + n - 1)
    /\ \A w \in DOMAIN workers' \ Pool : workers'[w].pc = "setup"

\* _restartWorkers runs in this step
Restarted == hist'.restarts = hist.restarts + 1

\* an exit that is neither clean nor caused by a termination signal
Abnormal(code, signal) == code # "0" /\ signal \notin ShutdownSignals

(***************************************************************************)
(* C1: while a restart is under way (from _restartWorkers, called with a   *)
(* worker accepting connections, until the next "All workers online") and  *)
(* no worker has crashed, at least one worker has a listener that accepts  *)
(* connections.                                                            *)
(***************************************************************************)
C1_ZeroDowntimeRestart ==
    (hist.restarts > 0 /\ hist.acceptingAtRestart /\ ~firstInitDone /\ hist.faults = 0)
        => AcceptingCount >= 1

(***************************************************************************)
(* C2: an exit event forks exactly one replacement when it is abnormal     *)
(* (nonzero code, or a signal other than SIGTERM / SIGINT) and the         *)
(* first-readiness flag is set; every other exit event forks nothing.      *)
(***************************************************************************)
C2_ExitStep(w, code, signal) ==
    /\ w \notin DOMAIN workers'
    /\ IF Abnormal(code, signal) /\ firstInitDone THEN Forked(1) ELSE Forked(0)

C2_ReplacementOnAbnormalExit ==
    [][ \A w \in Pool \ DOMAIN workers' :
          /\ \A code \in ExitCodes, signal \in ExitSignals :
                WorkerExit(w, code, signal) => C2_ExitStep(w, code, signal)
          /\ ForceKill(w) => C2_ExitStep(w, "null", "SIGKILL") ]_vars

\* a crash after readiness has been replaced: the pool is as large as before
C2_Witness ==
    /\ hist.faults = 1
    /\ hist.restarts = 0
    /\ nextId = numWorkers + 2
    /\ Cardinality(Pool) = numWorkers

(***************************************************************************)
(* C3: "All workers online" fires at most once between two restarts, and   *)
(* exactly at the serverRunning message that makes the ready count equal   *)
(* to the desired count; once the flag is set, a serverRunning message     *)
(* changes neither the ready count nor the flag.                           *)
(***************************************************************************)
C3_Step ==
    /\ (~Restarted /\ hist'.allOnline # hist.allOnline) =>
          /\ hist'.allOnline = hist.allOnline + 1
          /\ \E w \in Pool : Delivered(w, "serverRunning")
          /\ numWorkersReady' = numWorkersReady + 1
          /\ numWorkersReady' = numWorkers
          /\ ~firstInitDone /\ firstInitDone'
    /\ \A w \in Pool : Delivered(w, "serverRunning") =>
          IF firstInitDone
          THEN UNCHANGED <<numWorkersReady, firstInitDone>> /\ hist'.allOnline = hist.allOnline
          ELSE /\ numWorkersReady' = numWorkersReady + 1
               /\ (numWorkersReady' = numWorkers) = (hist'.allOnline = hist.allOnline + 1)
               /\ firstInitDone' = (numWorkersReady' = numWorkers)

C3_FullyReadyOncePerRestart ==
    [](hist.allOnline <= 1) /\ [][C3_Step]_vars

\* fully ready, and one more serverRunning message is on its way
C3_Witness ==
    /\ firstInitDone
    /\ hist.allOnline = 1
    /\ \E w \in Pool : workers[w].outbox # <<>> /\ Head(workers[w].outbox) = "serverRunning"

(***************************************************************************)
(* C4: a serverRunning message of a worker forked before the latest        *)
(* restart never increments the ready count.                               *)
(***************************************************************************)
C4_StaleReadinessIgnored ==
    [][ \A w \in Pool :
          (Delivered(w, "serverRunning") /\ workers[w].gen < hist.restarts)
              => numWorkersReady' = numWorkersReady ]_vars

(***************************************************************************)
(* C5: _restartWorkers, run with K workers in the pool, sends each of them *)
(* one 'shutdown' command, schedules one force-kill timer for each and     *)
(* forks K workers, all in one step and leaving the K old workers in the   *)
(* pool; a worker leaves the pool only when it exits or is force-killed.   *)
(***************************************************************************)
C5_Step ==
    /\ Restarted =>
          /\ \A w \in Pool : /\ w \in DOMAIN workers'
                             /\ workers'[w].inbox = workers[w].inbox + 1
                             /\ TimerCount(timers', w) = TimerCount(timers, w) + 1
          /\ \A w \in DOMAIN timers' \ Pool :
                TimerCount(timers', w) = TimerCount(timers, w)
          /\ Forked(Cardinality(Pool))
    /\ \A w \in Pool \ DOMAIN workers' :
          \/ \E code \in ExitCodes, signal \in ExitSignals : WorkerExit(w, code, signal)
          \/ ForceKill(w)

C5_RestartSendsTimesForks == [][C5_Step]_vars

\* after a restart of two workers: both old workers and both new ones are there
C5_Witness ==
    /\ hist.restarts = 1
    /\ Cardinality({w \in Pool : workers[w].gen = 0 /\ TimerCount(timers, w) = 1}) = 2
    /\ Cardinality({w \in Pool : workers[w].gen = 1}) = 2

(***************************************************************************)
(* C6: after init(), a UNNODE_WORKERS value that is a whole number within  *)
(* [1, cpuCount] has made the master fork that many workers; an absent,    *)
(* non-numeric or out-of-range value has made it fork cpuCount workers;    *)
(* and in every case _numWorkers equals the number of workers forked.      *)
(***************************************************************************)
C6_InitForksOverride ==
    masterPc = "running" =>
        LET n     == ToNumber(env.workers)
            valid == ~n.nan /\ n.num >= n.den /\ n.num <= env.cpus * n.den
        IN  /\ (valid /\ n.num % n.den = 0) => Cardinality(Pool) = n.num \div n.den
            /\ ~valid => Cardinality(Pool) = env.cpus
            /\ numWorkers = Cardinality(Pool)

(***************************************************************************)
(* C7: however often shutdownServer() is called in one worker, its         *)
(* pre-shutdown callback runs at most once, each of its two listeners is   *)
(* drained at most once, and it sends at most one 'shutdown' notification. *)
(***************************************************************************)
C7_ShutdownServerIdempotent ==
    \A w \in Pool :
        /\ workers[w].callbackRuns <= 1
        /\ workers[w].httpDrains <= 1
        /\ workers[w].httpsDrains <= 1
        /\ workers[w].notifications <= 1

\* shutdownServer() has been called twice and has run to its end once
C7_Witness ==
    \E w \in Pool :
        /\ workers[w].calls >= 2
        /\ workers[w].callbackRuns = 1
        /\ workers[w].httpDrains = 1
        /\ workers[w].httpsDrains = 1
        /\ workers[w].notifications = 1

(***************************************************************************)
(* C8: _shutdownWorkers runs once, at the first SIGINT / SIGTERM the       *)
(* master handles, sending one 'shutdown' to every worker; a later         *)
(* SIGINT / SIGTERM sends nothing and changes nothing of the master or of  *)
(* the workers.                                                            *)
(***************************************************************************)
C8_Step ==
    hist'.signals # hist.signals =>
        IF shutdownSignalReceived
        THEN /\ UNCHANGED <<masterVars, workers, nextId, timers>>
             /\ hist'.broadcasts = hist.broadcasts
        ELSE /\ shutdownSignalReceived'
             /\ hist'.broadcasts = hist.broadcasts + 1
             /\ DOMAIN workers' = Pool
             /\ \A w \in Pool : workers'[w].inbox = workers[w].inbox + 1

C8_ShutdownBroadcastOnce ==
    /\ [](hist.broadcasts = IF shutdownSignalReceived THEN 1 ELSE 0)
    /\ [][C8_Step]_vars

\* two termination signals handled, one broadcast that reached a worker
C8_Witness ==
    /\ hist.signals = 2
    /\ hist.broadcasts = 1
    /\ \E w \in Pool : workers[w].inbox >= 1

(***************************************************************************)
(* C9: a SIGUSR2 runs _restartWorkers if and only if _firstInitDone is     *)
(* true when it is handled; one handled before the first "All workers      *)
(* online", or after a restart whose workers are not all online yet,       *)
(* sends nothing, forks nothing and sets no timer.                         *)
(***************************************************************************)
C9_Step ==
    /\ Restarted => firstInitDone /\ ReloadSignal
    /\ ReloadSignal =>
          IF firstInitDone
          THEN Restarted
          ELSE /\ UNCHANGED <<masterVars, workers, nextId, timers>>
               /\ hist'.restarts = hist.restarts

C9_ReloadOnlyWhenReady == [][C9_Step]_vars

\* the SIGUSR2 handled last, after a restart and before its workers were all
\* online, has been ignored
C9_Witness ==
    /\ hist.restarts = 1
    /\ hist.lastReload = "ignored"
    /\ ~firstInitDone
    /\ \A w \in Pool : workers[w].inbox <= 1

(***************************************************************************)
(* C10: when the force-kill timer that _restartWorkers set for a worker    *)
(* kills it (no worker having crashed, no bind having failed and no        *)
(* pre-shutdown callback being configured), the worker has ended its       *)
(* graceful drain: none of its listeners is open or still draining.  This  *)
(* is stated for every deployment, with one listener and with two.         *)
(***************************************************************************)
\* the force-kill timer of worker w kills it in this step
ForceKilled(w) ==
    /\ w \in Pool
    /\ w \notin DOMAIN workers'
    /\ TimerCount(timers', w) < TimerCount(timers, w)

ListenersClosed(r) ==
    /\ r.serverInsecure \notin {"listening", "draining"}
    /\ r.serverSecure \notin {"listening", "draining"}

C10_DrainBeforeForceKill ==
    [][ \A w \in Pool :
          (ForceKilled(w) /\ hist.faults = 0 /\ ~env.shutdownCallback)
              => ~Draining(workers[w]) /\ ListenersClosed(workers[w]) ]_vars

\* the half of C10 that holds: deployments with a single listener
C10_SingleListener ==
    [][ \A w \in Pool :
          (ForceKilled(w) /\ hist.faults = 0 /\ ~env.portSecure /\ ~env.shutdownCallback)
              => ~Draining(workers[w]) /\ ListenersClosed(workers[w]) ]_vars

(***************************************************************************)
(* C11: a worker that the master has sent 'shutdown', from                 *)
(* _shutdownWorkers or from _restartWorkers, leaves the pool sooner or     *)
(* later: it exits by itself or the master kills it with SIGKILL.          *)
(***************************************************************************)
C11_ForceKillEventually ==
    \A w \in WorkerIds :
        (w \in Pool /\ workers[w].inbox > 0) ~> (w \notin Pool)

\* the half of C11 that holds: the workers _restartWorkers has commanded
C11_AfterRestart ==
    \A w \in WorkerIds :
        (w \in Pool /\ workers[w].gen < hist.restarts) ~> (w \notin Pool)

(***************************************************************************)
(* C12: a request whose host name (a host header with no port, the proxy   *)
(* header not being trusted) is registered is handed to the entry          *)
(* registered under that very name, whether or not a wildcard entry        *)
(* matches too; an entry under another key is used only when the host name *)
(* itself is not registered.                                               *)
(***************************************************************************)
Routed == call.fn = "middleware"

\* the request names its host in the host header, without a port
PlainHost == /\ ~call.trustProxy
             /\ ~Falsy(call.host)
             /\ \A i \in 1..Len(call.host) : call.host[i] # ":"

C12_ExactBeforeWildcard ==
    (Routed /\ PlainHost) =>
        /\ call.host \in DOMAIN call.routes =>
              /\ call.outcome.key = call.host
              /\ call.outcome.app = call.routes[call.host]
              /\ call.outcome.nexts = 0
        /\ (call.outcome.app # "none" /\ call.outcome.key # call.host) =>
              call.host \notin DOMAIN call.routes

\* a request whose host has an exact entry and a wildcard entry
C12_Witness ==
    /\ Routed /\ PlainHost
    /\ call.host \in DOMAIN call.routes
    /\ WildcardKey(call.host) \in DOMAIN call.routes
    /\ call.outcome.key = call.host

(***************************************************************************)
(* C13: the host name looked up is the host header up to its first ':';    *)
(* when that name is not registered, the request goes to the entry         *)
(* registered under '*' followed by the part of the name from its first    *)
(* '.' on, if the name has a '.' and that entry exists, and is passed      *)
(* through otherwise.  (Empty names and the names that every object        *)
(* inherits are left out.)                                                 *)
(***************************************************************************)
\* the part of s before its first ':'
C13_BeforePort(s) ==
    IF \E i \in 1..Len(s) : s[i] = ":"
    THEN SubSeq(s, 1, (CHOOSE i \in 1..Len(s) :
                           s[i] = ":" /\ \A j \in 1..(i - 1) : s[j] # ":") - 1)
    ELSE s

C13_HasDot(h) == \E i \in 1..Len(h) : h[i] = "."

\* '*' and the part of h from its first '.' on
C13_Wildcard(h) ==
    <<"*">> \o SubSeq(h, CHOOSE i \in 1..Len(h) :
                             h[i] = "." /\ \A j \in 1..(i - 1) : h[j] # ".", Len(h))

C13_Expected(routes, h) ==
    IF h \in DOMAIN routes THEN h
    ELSE IF C13_HasDot(h) /\ C13_Wildcard(h) \in DOMAIN routes THEN C13_Wildcard(h)
    ELSE Undefined

C13_Case ==
    /\ Routed
    /\ ~call.trustProxy
    /\ ~Falsy(call.host)
    /\ call.host \notin {ConstructorName, ProtoName}
    /\ C13_BeforePort(call.host) # <<>>

C13_PortStrippedWildcardBySuffix ==
    C13_Case =>
        LET key == C13_Expected(call.routes, C13_BeforePort(call.host))
        IN  IF key = Undefined
            THEN call.outcome = PassThrough
            ELSE /\ call.outcome.key = key
                 /\ call.outcome.app = call.routes[key]
                 /\ call.outcome.nexts = 0

\* the part of C13 that holds: host names with a '.'
C13_DottedHosts ==
    (C13_Case /\ C13_HasDot(C13_BeforePort(call.host))) =>
        LET key == C13_Expected(call.routes, C13_BeforePort(call.host))
        IN  IF key = Undefined
            THEN call.outcome = PassThrough
            ELSE /\ call.outcome.key = key
                 /\ call.outcome.app = call.routes[key]
                 /\ call.outcome.nexts = 0

(***************************************************************************)
(* C14: a request with no host header, or whose host name is registered    *)
(* neither itself nor under its wildcard key, is passed through: next() is *)
(* called once and nothing is handed the request.                          *)
(***************************************************************************)
C14_MissPassesThrough ==
    (Routed /\ ~call.trustProxy) =>
        LET h == SplitPort(call.host)
        IN  (\/ Falsy(call.host)
             \/ h \notin DOMAIN call.routes /\ WildcardKey(h) \notin DOMAIN call.routes)
                => call.outcome = PassThrough

(***************************************************************************)
(* C15: when the proxy header is trusted and the request has one, the      *)
(* request is routed as a request whose host header is that forwarded      *)
(* host, whatever its own host header; when the proxy header is not        *)
(* trusted, the request is routed as it would be without that header.      *)
(***************************************************************************)
C15_ForwardedHostOnlyWhenTrusted ==
    Routed =>
        IF call.trustProxy /\ ~Falsy(call.forwarded)
        THEN call.outcome = Intercept(call.routes, call.forwarded, Undefined, FALSE)
        ELSE call.outcome = Intercept(call.routes, call.host, Undefined, FALSE)

\* the part of C15 that holds: requests that have a host header
C15_WithHostHeader ==
    (Routed /\ ~Falsy(call.host)) =>
        IF call.trustProxy /\ ~Falsy(call.forwarded)
        THEN call.outcome = Intercept(call.routes, call.forwarded, Undefined, FALSE)
        ELSE call.outcome = Intercept(call.routes, call.host, Undefined, FALSE)

(***************************************************************************)
(* C16: the SNI callback hands over the secure context of a config entry   *)
(* when that entry is the only one whose host names contain the server     *)
(* name asked for, or '*' followed by the part of that name from its first *)
(* '.' on; when no entry or several entries match, it hands over none.     *)
(***************************************************************************)
C16_Matches(e, d) ==
    d \in e.vhost \/ (C13_HasDot(d) /\ C13_Wildcard(d) \in e.vhost)

C16_Expected(config, d) ==
    LET matching == {i \in 1..Len(config) : C16_Matches(config[i], d)}
    IN  IF Cardinality(matching) = 1
        THEN LET i == CHOOSE j \in matching : TRUE
             IN  [entry |-> i, context |-> config[i].secureContext]
        ELSE [entry |-> 0, context |-> FALSE]

C16_SniUniqueMatch ==
    call.fn = "SNICallback" => call.result = C16_Expected(call.config, call.domain)

\* the part of C16 that holds: server names with a '.'
C16_DottedNames ==
    (call.fn = "SNICallback" /\ C13_HasDot(call.domain)) =>
        call.result = C16_Expected(call.config, call.domain)

(***************************************************************************)
(* C19: no exception leaves the clientError handler, whatever the error    *)
(* code (a missing one included) and the state of the socket; when the     *)
(* socket is writable the handler writes a '400 Bad Request' response and  *)
(* then ends the connection.                                               *)
(***************************************************************************)
C19_Answered ==
    /\ call.result.response.status = 400
    /\ call.result.ended

C19_ClientErrorAnswered ==
    call.fn = "clientError" =>
        /\ ~call.result.escaped
        /\ call.writable => C19_Answered

\* the part of C19 that holds: no exception escapes, and an error with a
\* code other than ECONNRESET on a writable socket is answered
C19_CodedErrors ==
    call.fn = "clientError" =>
        /\ ~call.result.escaped
        /\ (call.writable /\ call.code \notin {Undefined, Econnreset}) => C19_Answered

(***************************************************************************)
(* C17: whatever the validity of the two ports and the readability of the  *)
(* default TLS key and certificate, a worker whose runServer() came to its *)
(* end or failed with no listener started has called shutdownServer() and  *)
(* has sent no serverRunning message.                                      *)
(***************************************************************************)
C17_NoListener(w) ==
    /\ workers[w].pc \in {"served", "stuck"}
    /\ ~workers[w].httpTerminator
    /\ ~workers[w].httpsTerminator

C17_NoListenerShutsDown ==
    \A w \in Pool :
        C17_NoListener(w) => (workers[w].calls > 0 /\ ~workers[w].ranServerRunning)

\* the part of C17 that holds: deployments in which the secure server is
\* not asked for or its default key and certificate can be read
C17_TlsReadable ==
    (env.tlsReadable \/ ~env.portSecure) =>
        \A w \in Pool :
            C17_NoListener(w) => (workers[w].calls > 0 /\ ~workers[w].ranServerRunning)

(***************************************************************************)
(* C18: setupServer throws, and registers no host name of the offending    *)
(* entry or of a later one, whenever the config is not a list, or an entry *)
(* has no host name list, an empty host name list, or a host name that is  *)
(* not a non-empty string, or a non-static route names a handler that      *)
(* cannot be resolved.                                                     *)
(***************************************************************************)
C18_BadHost(h) == h = NotAString \/ Len(h) = 0

C18_BadEntry(e) ==
    \/ e.kind # "object"
    \/ e.vhost = <<>>
    \/ \E h \in Elements(e.vhost) : C18_BadHost(h)
    \/ "unresolved" \in Elements(e.routes)

C18_BadEntryNonEmpty(e) ==
    \/ e.kind # "object"
    \/ \E h \in Elements(e.vhost) : C18_BadHost(h)
    \/ "unresolved" \in Elements(e.routes)

\* the host names of the entries before the first bad one
C18_Before(entries, Bad(_)) ==
    UNION {Elements(entries[i].vhost) :
              i \in {j \in 1..Len(entries) : \A k \in 1..j : ~Bad(entries[k])}}

C18_Aborts(Bad(_)) ==
    (~call.config.isArray \/ \E e \in Elements(call.config.entries) : Bad(e)) =>
        /\ call.error # "none"
        /\ DOMAIN hostDictionary \subseteq C18_Before(call.config.entries, Bad)

C18_InvalidConfigAborts ==
    call.fn = "setupServer" => C18_Aborts(C18_BadEntry)

\* the part of C18 that holds: every invalid config but the empty host
\* name list
C18_NonEmptyLists ==
    call.fn = "setupServer" => C18_Aborts(C18_BadEntryNonEmpty)

(***************************************************************************)
(* C20: once a worker has begun shutdown (its shutdownServer() has run) it *)
(* opens no listener and sends no serverRunning message afterwards, and    *)
(* the master handles no serverRunning message of a worker whose           *)
(* 'shutdown' notification it has handled (it has disconnected it).        *)
(***************************************************************************)
C20_Opens(w) ==
    \/ workers[w].serverInsecure # "listening" /\ workers'[w].serverInsecure = "listening"
    \/ workers[w].serverSecure # "listening" /\ workers'[w].serverSecure = "listening"

C20_Step ==
    \A w \in Pool \cap DOMAIN workers' :
        /\ workers[w].serverQuitting =>
              /\ ~C20_Opens(w)
              /\ workers'[w].ranServerRunning = workers[w].ranServerRunning
        /\ Delivered(w, "serverRunning") => workers[w].connected

C20_LifecycleMonotone == [][C20_Step]_vars

\* the part of C20 that holds: a worker that is told to shut down once its
\* runServer() has ended opens no listener and reports no readiness later
C20_StepAfterListen ==
    \A w \in Pool \cap DOMAIN workers' :
        (workers[w].serverQuitting /\ workers[w].pc = "served") =>
            /\ ~C20_Opens(w)
            /\ workers'[w].ranServerRunning = workers[w].ranServerRunning
            /\ workers'[w].outbox # Append(workers[w].outbox, "serverRunning")

C20_MonotoneAfterListen == [][C20_StepAfterListen]_vars

(***************************************************************************)
(* C21: with a valid secure port, a config entry whose secureContext names *)
(* a key file, a certificate file or a CA file that cannot be read makes   *)
(* setupServer throw; so every context the SNI callback hands over for a   *)
(* config that was set up was built from material that could be read.      *)
(***************************************************************************)
C21_Unreadable(e) ==
    /\ e.secureContext.kind = "object"
    /\ ~e.secureContext.key \/ ~e.secureContext.cert \/ e.secureContext.ca = "unreadable"

\* the parsed config as the SNI callback reads it
C21_SniConfig(entries) ==
    [i \in 1..Len(entries) |->
        [vhost |-> Elements(entries[i].vhost),
         secureContext |-> entries[i].secureContext.kind # "none"]]

C21_UnreadableMaterialAborts ==
    (call.fn = "setupServer" /\ env.portSecure /\ call.config.isArray) =>
        /\ (\E e \in Elements(call.config.entries) : C21_Unreadable(e)) => call.error # "none"
        /\ call.error = "none" =>
              \A d \in Domains :
                  LET r == SNICallback(C21_SniConfig(call.config.entries), d)
                  IN  r.entry # 0 => ~C21_Unreadable(call.config.entries[r.entry])

\* a secure port is set and an entry names a CA file that cannot be read,
\* next to a key and a certificate that can
C21_Witness ==
    /\ call.fn = "setupServer"
    /\ env.portSecure
    /\ call.error = "unable to read CA file"
    /\ \E e \in Elements(call.config.entries) :
          e.secureContext.key /\ e.secureContext.cert /\ e.secureContext.ca = "unreadable"

(***************************************************************************)
(* C22: setupServer accepts a config only if exactly one of its entries    *)
(* has the host name list ["*"].                                           *)
(***************************************************************************)
C22_CatchAll(e) == e.kind = "object" /\ e.vhost = << <<"*">> >>

C22_CatchAllMandatoryAndUnique ==
    (call.fn = "setupServer" /\ call.error = "none") =>
        Cardinality({i \in 1..Len(call.config.entries) :
                        C22_CatchAll(call.config.entries[i])}) = 1

(***************************************************************************)
(* C23: _shutdownWorkers only sends the 'shutdown' command to each worker  *)
(* of the pool: the step sets no force-kill timer, removes no worker from  *)
(* the pool, forks none, changes nothing else of any worker, and leaves    *)
(* the ready count and the first-readiness flag as they were.              *)
(***************************************************************************)
C23_Step ==
    hist'.broadcasts # hist.broadcasts =>
        /\ workers' = [w \in Pool |-> [workers[w] EXCEPT !.inbox = @ + 1,
                                                          !.shutdownSent = TRUE]]
        /\ UNCHANGED <<timers, nextId, numWorkers, numWorkersReady, firstInitDone>>

C23_ShutdownAllOnlySends == [][C23_Step]_vars

\* the broadcast has reached a pool of two workers while the master was
\* fully ready
C23_Witness ==
    /\ hist.broadcasts = 1
    /\ firstInitDone
    /\ Cardinality(Pool) = 2
    /\ \A w \in Pool : workers[w].inbox = 1

(***************************************************************************)
(* C24: a worker's shutdown stops the heartbeat first, then runs the       *)
(* pre-shutdown callback and waits for it, then drains each open listener, *)
(* and sends {type:'shutdown'} only when every drain has ended; once its   *)
(* shutdown has begun the worker sends no pingConsole message.             *)
(***************************************************************************)
\* shutdownServer() begins in this step: the heartbeat is stopped, and with
\* a callback registered nothing else has happened yet
C24_Begins(w) ==
    (~workers[w].serverQuitting /\ workers'[w].serverQuitting) =>
        /\ ~workers'[w].pingInterval
        /\ env.shutdownCallback =>
              /\ workers'[w].sd = "callback"
              /\ workers'[w].callbackRuns = 1
              /\ workers'[w].httpDrains = 0 /\ workers'[w].httpsDrains = 0
              /\ workers'[w].notifications = 0

\* a drain starts only when the callback has returned, the HTTPS drain only
\* when the HTTP drain has ended
C24_Drains(w) ==
    /\ workers'[w].httpDrains > workers[w].httpDrains =>
          /\ workers'[w].sd = "drainHttp"
          /\ workers[w].sd \in {"idle", "callback"}
          /\ workers[w].sd = "idle" => ~env.shutdownCallback
    /\ workers'[w].httpsDrains > workers[w].httpsDrains =>
          /\ workers'[w].sd = "drainHttps"
          /\ workers[w].sd # "drainHttps"
          /\ workers'[w].serverInsecure # "draining"

\* {type:'shutdown'} is sent once, when the callback has run and no drain
\* is pending
C24_Notifies(w) ==
    workers'[w].notifications > workers[w].notifications =>
        /\ workers'[w].notifications = 1
        /\ workers'[w].sd = "done"
        /\ env.shutdownCallback => workers'[w].callbackRuns = 1
        /\ workers'[w].serverInsecure # "draining"
        /\ workers'[w].serverSecure # "draining"
        /\ workers'[w].httpTerminator => workers'[w].httpDrains = 1
        /\ workers'[w].httpsTerminator => workers'[w].httpsDrains = 1

C24_Silent(w) ==
    workers[w].serverQuitting => workers'[w].pings = workers[w].pings

C24_Step ==
    \A w \in Pool \cap DOMAIN workers' :
        C24_Begins(w) /\ C24_Drains(w) /\ C24_Notifies(w) /\ C24_Silent(w)

C24_ShutdownOrder == [][C24_Step]_vars

\* the part of C24 that holds: the order of the steps of one shutdown
C24_OrderStep ==
    \A w \in Pool \cap DOMAIN workers' :
        C24_Begins(w) /\ C24_Drains(w) /\ C24_Notifies(w)

C24_OrderWithinShutdown == [][C24_OrderStep]_vars

(***************************************************************************)
(* C25: an 'error' event of a listener calls shutdownServer(), and a       *)
(* worker one of whose listeners failed to bind has sent no serverRunning  *)
(* message and sends none.                                                 *)
(***************************************************************************)
C25_BindFailed(r) == r.serverInsecure = "error" \/ r.serverSecure = "error"

C25_Step ==
    \A w \in Pool \cap DOMAIN workers' :
        (~C25_BindFailed(workers[w]) /\ C25_BindFailed(workers'[w])) =>
            /\ workers'[w].calls = workers[w].calls + 1
            /\ workers'[w].serverQuitting

C25_NeverRunning ==
    \A w \in Pool :
        C25_BindFailed(workers[w]) =>
            /\ ~workers[w].ranServerRunning
            /\ \A i \in 1..Len(workers[w].outbox) : workers[w].outbox[i] # "serverRunning"

C25_ListenerErrorShutsDown == []C25_NeverRunning /\ [][C25_Step]_vars

\* the HTTPS bind failed after the HTTP listener had been opened, and the
\* shutdown it started has drained that listener
C25_Witness ==
    \E w \in Pool :
        /\ workers[w].serverSecure = "error"
        /\ workers[w].httpTerminator
        /\ workers[w].serverInsecure = "closed"
        /\ workers[w].notifications = 1

(***************************************************************************)
(* C26: _restartWorkers sets the ready count to 0 and the first-readiness  *)
(* flag to false in the step that sends the commands and forks; from then  *)
(* until the next "All workers online" the flag stays false, and a worker  *)
(* that leaves the pool meanwhile, whatever its exit code or signal, is    *)
(* not replaced.                                                           *)
(***************************************************************************)
C26_Step ==
    /\ Restarted => (numWorkersReady' = 0 /\ ~firstInitDone')
    /\ (~firstInitDone /\ firstInitDone') => hist'.allOnline = hist.allOnline + 1
    /\ (hist.restarts > 0 /\ ~firstInitDone /\ ~Restarted /\ Pool \ DOMAIN workers' # {}) =>
          /\ DOMAIN workers' \subseteq Pool
          /\ nextId' = nextId

C26_RestartResetsReadiness == [][C26_Step]_vars

\* after a restart and before the next "All workers online", a worker has
\* crashed and the pool has one worker less
C26_Witness ==
    /\ hist.restarts = 1
    /\ ~firstInitDone
    /\ hist.allOnline = 0
    /\ hist.faults = 1
    /\ nextId = 2 * numWorkers + 1
    /\ Cardinality(Pool) = 2 * numWorkers - 1
    /\ \A w \in Pool : workers[w].serverInsecure # "error" /\ workers[w].serverSecure # "error"

(***************************************************************************)
(* C27: every request that passes through the interceptor has exactly one  *)
(* of three outcomes: next() is called once and nothing is handed the      *)
(* request; the registered function found for it is called; 'request' is   *)
(* emitted on the registered application object found for it.  In the last *)
(* two the interceptor does not call next(), and it never throws.          *)
(***************************************************************************)
C27_NoMatch ==
    call.outcome.nexts = 1 /\ call.outcome.app = "none" /\ call.outcome.how = "none"

C27_Called ==
    /\ call.outcome.how = "call" /\ call.outcome.nexts = 0
    /\ call.outcome.key \in DOMAIN call.routes
    /\ call.routes[call.outcome.key] = "function"
    /\ call.outcome.app = "function"

C27_Emitted ==
    /\ call.outcome.how = "emit" /\ call.outcome.nexts = 0
    /\ call.outcome.key \in DOMAIN call.routes
    /\ call.routes[call.outcome.key] = "emitter"
    /\ call.outcome.app = "emitter"

C27_OneOfThree ==
    /\ ~call.outcome.threw
    /\ Cardinality({o \in {"next", "call", "emit"} :
                       \/ o = "next" /\ C27_NoMatch
                       \/ o = "call" /\ C27_Called
                       \/ o = "emit" /\ C27_Emitted}) = 1

C27_ExactlyOneOutcome == Routed => C27_OneOfThree

\* the part of C27 that holds: requests whose host is not the name of a
\* property every object inherits
C27_OwnKeys ==
    (Routed /\ call.outcome.key \notin {ConstructorName, ProtoName}) => C27_OneOfThree

(***************************************************************************)
(* C28: after setupServer has accepted a config, the dictionary holds the  *)
(* host names of the entries that are not the catch-all entry ["*"], and   *)
(* no other key; each is bound to the application of the last entry that   *)
(* lists it; the routes of a catch-all entry are on the base application,  *)
(* and that entry has no application of its own and no key.                *)
(***************************************************************************)
C28_Entries == call.config.entries

C28_Named == {i \in 1..Len(C28_Entries) : ~C22_CatchAll(C28_Entries[i])}

C28_Lists(i, h) == h \in Elements(C28_Entries[i].vhost)

C28_RoutesOn(app) ==
    IF app \in DOMAIN call.installed THEN call.installed[app] ELSE 0

RECURSIVE C28_Sum(_, _)
C28_Sum(f, set) ==
    IF set = {} THEN 0
    ELSE LET i == CHOOSE j \in set : TRUE
         IN  f[i] + C28_Sum(f, set \ {i})

C28_RegistrationPerEntry ==
    (call.fn = "setupServer" /\ call.error = "none") =>
        /\ DOMAIN hostDictionary = {h \in ConfigHosts : \E i \in C28_Named : C28_Lists(i, h)}
        /\ DOMAIN call.apps = DOMAIN hostDictionary
        /\ \A h \in DOMAIN hostDictionary :
              /\ hostDictionary[h] = "function"
              /\ call.apps[h] \in C28_Named
              /\ C28_Lists(call.apps[h], h)
              /\ \A i \in C28_Named : C28_Lists(i, h) => i <= call.apps[h]
        /\ \A i \in 1..Len(C28_Entries) :
              C28_RoutesOn(i) = IF i \in C28_Named THEN Len(C28_Entries[i].routes) ELSE 0
        /\ C28_RoutesOn(0) =
              C28_Sum([i \in 1..Len(C28_Entries) |-> Len(C28_Entries[i].routes)],
                      (1..Len(C28_Entries)) \ C28_Named)

\* a catch-all entry with a route, then an entry that lists "*" next to
\* another name: the key "*" is the second entry's
C28_Witness ==
    /\ call.fn = "setupServer" /\ call.error = "none"
    /\ Len(C28_Entries) = 2
    /\ C22_CatchAll(C28_Entries[1]) /\ Len(C28_Entries[1].routes) = 1
    /\ C28_Entries[2].vhost = << <<"a">>, <<"*">> >>
    /\ call.apps[<<"*">>] = 2
    /\ call.installed[0] = 1

\* two entries list the same host name: it is bound to the second one
C28_LastWins ==
    /\ call.fn = "setupServer" /\ call.error = "none"
    /\ Len(C28_Entries) = 2
    /\ C28_Lists(1, <<"a">>) /\ C28_Lists(2, <<"a">>)
    /\ call.apps[<<"a">>] = 2

(***************************************************************************)
(* C29: in every reachable state, the workers of the pool that the master  *)
(* has not sent the 'shutdown' command are at most as many as the desired  *)
(* worker count this._numWorkers.                                          *)
(***************************************************************************)
C29_Uncommanded == {w \in Pool : ~workers[w].shutdownSent}

C29_PoolSizeBound ==
    masterPc = "running" => Cardinality(C29_Uncommanded) <= numWorkers

\* the part of C29 that holds: up to the first restart
C29_BeforeRestart ==
    (masterPc = "running" /\ hist.restarts = 0) =>
        Cardinality(C29_Uncommanded) <= numWorkers

(***************************************************************************)
(* C30: in the step that logs "All workers online", the pool holds exactly *)
(* this._numWorkers workers of the current generation whose serverRunning  *)
(* message the master has handled and that have not begun shutdown.        *)
(***************************************************************************)
\* the workers that count as ready after the step
C30_Ready ==
    {w \in DOMAIN workers' :
        /\ workers'[w].gen = hist'.restarts
        /\ workers'[w].ranServerRunning
        /\ \A i \in 1..Len(workers'[w].outbox) : workers'[w].outbox[i] # "serverRunning"
        /\ ~workers'[w].serverQuitting}

C30_Step ==
    hist'.allOnline = hist.allOnline + 1 => Cardinality(C30_Ready) = numWorkers

C30_FullyReadyMeansAllReady == [][C30_Step]_vars

\* the part of C30 that holds: startups with no crash, no failed bind, no
\* restart and no termination signal before "All workers online"
C30_QuietStep ==
    (hist.faults = 0 /\ hist.restarts = 0 /\ hist.broadcasts = 0) => C30_Step

C30_QuietStartup == [][C30_QuietStep]_vars

(***************************************************************************)
(* C31: once the master has run the shutdown broadcast for a SIGINT or a   *)
(* SIGTERM, no step forks a worker: no worker exit and no SIGUSR2 does.    *)
(***************************************************************************)
C31_NoFork == DOMAIN workers' \subseteq Pool /\ nextId' = nextId

C31_NoForkAfterBroadcast == [][shutdownSignalReceived => C31_NoFork]_vars

\* the part of C31 that holds: a broadcast made before "All workers online"
\* or during a restart, while the first-readiness flag stays false
C31_NoForkWhileNotReady ==
    [][(shutdownSignalReceived /\ ~firstInitDone /\ ~firstInitDone') => C31_NoFork]_vars

(***************************************************************************)
(* C32: after a SIGINT or SIGTERM has reached the master, with no SIGUSR2, *)
(* no abnormal worker exit and no failed bind, with every pre-shutdown     *)
(* callback returning and fair scheduling, every worker sooner or later    *)
(* has left the pool with its listeners closed; also a worker that got the *)
(* 'shutdown' command before its listeners were bound.                     *)
(***************************************************************************)
C32_Quiet == hist.restarts = 0 /\ hist.faults = 0 /\ hist.lastReload = "none"

C32_AfterSetup ==
    \A w \in WorkerIds :
        (w \in Pool /\ C32_Quiet /\ workers[w].serverQuitting /\ ~workers[w].pingInterval
            /\ workers[w].pc # "setup")
        ~> (w \notin Pool \/ ~C32_Quiet)

(***************************************************************************)
(* C33: after a call of _restartWorkers(), if every worker it forked binds *)
(* its listener and reports serverRunning (no crash, no failed bind, no    *)
(* 'shutdown' command to any of them) and scheduling is fair, then sooner  *)
(* or later "All workers online" is logged and _firstInitDone is true      *)
(* again, whatever the size of the pool was at the call.                   *)
(***************************************************************************)
C33_NewWorkersServe ==
    /\ hist.faults = 0
    /\ \E w \in Pool : workers[w].gen = hist.restarts
    /\ \A w \in Pool : workers[w].gen = hist.restarts => ~workers[w].shutdownSent

C33_RestartCompletes ==
    (hist.restarts > 0 /\ ~firstInitDone /\ C33_NewWorkersServe)
    ~> (firstInitDone \/ ~C33_NewWorkersServe)

\* the part of C33 that holds: a restart of a pool that no SIGINT or SIGTERM
\* has begun to empty completes
C33_FullPool ==
    (hist.restarts > 0 /\ ~firstInitDone /\ ~shutdownSignalReceived /\ hist.faults = 0)
    ~> (firstInitDone \/ shutdownSignalReceived \/ hist.faults > 0)

(***************************************************************************)
(* C34: in every state after init(), 0 <= _numWorkersReady <= _numWorkers, *)
(* _numWorkers is in [1, cpuCount], and _firstInitDone is true only if     *)
(* _numWorkersReady = _numWorkers.                                         *)
(***************************************************************************)
C34_Counters ==
    /\ 0 <= numWorkersReady
    /\ numWorkersReady <= numWorkers
    /\ numWorkers \in 1..env.cpus
    /\ firstInitDone => numWorkersReady = numWorkers

C34_CounterInvariants == masterPc = "running" => C34_Counters

\* the part of C34 that holds: the counters of a master whose UNNODE_WORKERS
\* is unset or a decimal whole number
C34_DecimalOverride ==
    (masterPc = "running" /\ (env.workers = Undefined \/ env.workers = <<"1">>))
        => C34_Counters

(***************************************************************************)
(* C35: when a force-kill timer of _restartWorkers() fires, the only       *)
(* worker that can leave the pool is the one the timer was set for, a      *)
(* worker forked before that restart; the other workers are untouched, and *)
(* when that worker has already left the pool nothing changes.             *)
(***************************************************************************)
C35_Fired(w) == TimerCount(timers', w) < TimerCount(timers, w)

C35_Step(w) ==
    C35_Fired(w) =>
        /\ Pool \ DOMAIN workers' \subseteq {w}
        /\ \A v \in Pool \ {w} : v \in DOMAIN workers' /\ workers'[v] = workers[v]
        /\ w \in Pool => workers[w].gen < hist.restarts
        /\ w \notin Pool => workers' = workers /\ nextId' = nextId

C35_TimerKillsOwnWorker == [][\A w \in WorkerIds : C35_Step(w)]_vars

\* every timer has fired, and one of them killed its worker after the new
\* workers were ready: the master forked a replacement beyond the restart's
C35_Witness ==
    /\ hist.restarts = 1
    /\ hist.faults = 0
    /\ timers = <<>>
    /\ nextId - 1 > 2 * numWorkers
    /\ Pool # {}
    /\ \A w \in Pool : workers[w].gen = 1

(***************************************************************************)
(* C36: for every config and server name h, when the host router hands the *)
(* requests for h to the application of an entry that has certificate      *)
(* material, the SNICallback for h passes that entry's secure context.     *)
(***************************************************************************)
C36_Routed == RoutedEntry(call.config, call.domain)

C36_RoutingAndCertificateAgree ==
    (call.fn = "SNICallback" /\ C36_Routed # 0 /\ call.config[C36_Routed].secureContext)
        => call.result.entry = C36_Routed /\ call.result.context

\* the part of C36 that holds: configs in which one entry only covers h, by
\* its exact name or by its wildcard key
C36_SingleCover ==
    (/\ call.fn = "SNICallback"
     /\ C36_Routed # 0
     /\ call.config[C36_Routed].secureContext
     /\ Cardinality(SniMatches(call.config, call.domain)) = 1)
        => call.result.entry = C36_Routed /\ call.result.context

(***************************************************************************)
(* C37: https.createServer is reached only if the default key and the      *)
(* default certificate could be read and, when UNNODE_SERVER_SECURE_       *)
(* DEFAULT_CA is set, the CA file could be read too.                       *)
(***************************************************************************)
C37_DefaultTlsBinding ==
    (call.fn = "startHttpSecureServer" /\ call.result.created) =>
        /\ call.key = "readable"
        /\ call.cert = "readable"
        /\ call.ca # "unset" => call.ca = "readable"

\* the part of C37 that holds: the key and the certificate
C37_KeyAndCertificate ==
    (call.fn = "startHttpSecureServer" /\ call.result.created) =>
        call.key = "readable" /\ call.cert = "readable"

(***************************************************************************)
(* C38: a worker that has sent { type: 'shutdown' } to the master has no   *)
(* listener open, at the send and at any time after it, however the        *)
(* 'shutdown' command and the binds of runServer() are interleaved.        *)
(***************************************************************************)
C38_Open(r) ==
    \/ r.serverInsecure \in {"listening", "draining"}
    \/ r.serverSecure \in {"listening", "draining"}

C38_NotifiedMeansClosed ==
    \A w \in Pool : workers[w].notifications > 0 => ~C38_Open(workers[w])

\* the part of C38 that holds: a worker whose shutdownServer() found every
\* listener of the deployment bound, and so drained each of them
C38_AllBoundAtShutdown ==
    \A w \in Pool :
        (/\ workers[w].notifications > 0
         /\ env.portInsecure => workers[w].httpDrains > 0
         /\ env.portSecure => workers[w].httpsDrains > 0)
            => ~C38_Open(workers[w])

(***************************************************************************)
(* C39: a request whose host name h has no entry of its own goes to the    *)
(* application registered under '*' + S, S beginning with '.', whenever h  *)
(* ends with S and has one label or several labels before it; and a host   *)
(* name with no '.' never goes to such an entry.                           *)
(***************************************************************************)
\* k is '*' followed by a suffix that begins with '.'
C39_Pattern(k) == Len(k) >= 3 /\ k[1] = "*" /\ k[2] = "."

\* p is one label or several labels joined by '.'
C39_Labels(p) ==
    /\ p # <<>>
    /\ p[1] # "." /\ p[Len(p)] # "."
    /\ \A i \in 1..(Len(p) - 1) : ~(p[i] = "." /\ p[i + 1] = ".")

\* h is some labels followed by the suffix of pattern k
C39_Covers(k, h) ==
    /\ Len(h) > Len(k) - 1
    /\ SubSeq(h, Len(h) - Len(k) + 2, Len(h)) = Tail(k)
    /\ C39_Labels(SubSeq(h, 1, Len(h) - Len(k) + 1))

C39_RoutedBy(k) ==
    /\ call.outcome.key = k
    /\ call.outcome.app = call.routes[k]
    /\ call.outcome.nexts = 0

C39_WildcardBySuffix ==
    (Routed /\ PlainHost /\ call.host \notin DOMAIN call.routes) =>
        \A k \in {j \in DOMAIN call.routes : C39_Pattern(j)} :
            /\ C39_Covers(k, call.host) => C39_RoutedBy(k)
            /\ ~C13_HasDot(call.host) => call.outcome.key # k

\* the part of C39 that holds: host names with one label before the suffix
C39_OneLabel ==
    (Routed /\ PlainHost /\ call.host \notin DOMAIN call.routes) =>
        \A k \in {j \in DOMAIN call.routes : C39_Pattern(j)} :
            /\ (C39_Covers(k, call.host)
                    /\ ~C13_HasDot(SubSeq(call.host, 1, Len(call.host) - Len(k) + 1)))
                  => C39_RoutedBy(k)
            /\ ~C13_HasDot(call.host) => call.outcome.key # k

====
